---------------------------- MODULE Spec2Model ----------------------------
(***************************************************************************)
(* A model of the AI analysis pipeline of getinsightsnap/Backend:          *)
(* query expansion, relevance filtering, focused and bulk categorization,  *)
(* the keyword fallback classifier, the rebalancer and the response        *)
(* extractor (AIUtils.extractJSON, both copies found in the source).       *)
(*                                                                         *)
(* Text is a sequence of tokens.  The tokens that the extractor and        *)
(* JSON.parse look at are single characters ("[", "]", "{", "}", the       *)
(* double quote, ",", ":", digits, blanks); a markdown fence and a word    *)
(* are one token each.                                                     *)
(***************************************************************************)
EXTENDS Integers, Sequences, FiniteSets, TLC

VARIABLES
    utilsCopy,      \* which of the two AIUtils copies is loaded as ./utils
    pc,             \* position of the running operation
    \* extractor
    text,           \* the raw text given to extractJSON
    payload,        \* the JSON text that was wrapped into text (<<>> if none)
    extracted,      \* what extractJSON returned
    \* query expansion
    service,        \* "QueryExpansionService" (modular) or "AIService" (legacy)
    query,          \* the user's query
    attempt,        \* the loop variable of generateQueryExpansion
    attemptLog,     \* the outcome of every attempt made so far
    calls,          \* number of oracle calls issued by the running operation
    focusAreas,     \* the list generateQueryExpansion returned
    \* analysis pipeline
    operation,      \* the entry point that was called
    corpus,         \* which set of post contents the ids stand for
    posts,          \* the post list passed to the entry point
    relevantPosts,  \* the list filterRelevantPosts has built so far
    batchLog,       \* per filter batch: input, oracle response, output
    stageLog,       \* per categorization stage run: input, response, output
    result,         \* what the entry point returned
    \* inference client
    request,        \* the options OllamaClient.call was given
    transport,      \* what the HTTP request of the call meets
    outcome,        \* what OllamaClient.call returned or threw
    \* feedback read model
    feedback,       \* what the rating tables do when getRatingInsights reads them
    \* timers
    pauses,         \* number of 1000 ms pauses the running filter loop has made
    \* payments
    webhookVerifier, \* TRUE when routes/payments.js built its Webhook verifier
    users,          \* the users table: subscription_tier by user id
    webhook         \* the webhook request in flight, its response and its calls

extractVars == <<text, payload, extracted>>
expansionVars == <<service, query, attempt, attemptLog, focusAreas>>
pipelineVars == <<operation, corpus, posts, relevantPosts, batchLog, stageLog, result>>
clientVars == <<request, transport, outcome>>
paymentVars == <<webhookVerifier, users, webhook>>
vars == <<utilsCopy, pc, calls, extractVars, expansionVars, pipelineVars, clientVars,
          feedback, pauses, paymentVars, paymentVars>>

-----------------------------------------------------------------------------
(* Tokens.  FENCE is the three-backquote markdown fence, FENCEJSON the   *)
(* fence followed by the word json.                                        *)

QUOTE == "\""
WS == {" ", "\n"}
Digits == {"0", "1", "2", "3", "4", "5", "6", "7", "8", "9"}
FENCE == "<fence>"
FENCEJSON == "<fence-json>"

DigitVal(d) ==
    CASE d = "0" -> 0 [] d = "1" -> 1 [] d = "2" -> 2 [] d = "3" -> 3
      [] d = "4" -> 4 [] d = "5" -> 5 [] d = "6" -> 6 [] d = "7" -> 7
      [] d = "8" -> 8 [] OTHER -> 9

-----------------------------------------------------------------------------
(* JavaScript values, as JSON.parse builds them.  Every value is a record  *)
(* of the same shape: t is the type tag, n a number, s the tokens of a     *)
(* string, e the elements of an array or the member values of an object,   *)
(* k the member keys of an object.                                         *)

JUndefined == [t |-> "undefined", n |-> 0, s |-> <<>>, e |-> <<>>, k |-> <<>>]
JNull == [t |-> "null", n |-> 0, s |-> <<>>, e |-> <<>>, k |-> <<>>]
JBool(b) == [t |-> "boolean", n |-> IF b THEN 1 ELSE 0, s |-> <<>>, e |-> <<>>, k |-> <<>>]
JNum(x) == [t |-> "number", n |-> x, s |-> <<>>, e |-> <<>>, k |-> <<>>]
JStr(x) == [t |-> "string", n |-> 0, s |-> x, e |-> <<>>, k |-> <<>>]
JArr(x) == [t |-> "array", n |-> 0, s |-> <<>>, e |-> x, k |-> <<>>]
JObj(keys, vals) == [t |-> "object", n |-> 0, s |-> <<>>, e |-> vals, k |-> keys]

\* Array.isArray(v)
IsArray(v) == v.t = "array"

\* typeof v === 'object' (null and arrays included, as in JavaScript)
TypeofObject(v) == v.t \in {"object", "array", "null"}

\* v is truthy
Truthy(v) ==
    CASE v.t \in {"undefined", "null"} -> FALSE
      [] v.t = "boolean" -> v.n = 1
      [] v.t = "number" -> v.n # 0
      [] v.t = "string" -> v.s # <<>>
      [] OTHER -> TRUE

\* v.key throws a TypeError exactly when v is null or undefined
PropertyThrows(v) == v.t \in {"undefined", "null"}

\* v.key for a parsed value: the last member named key of an object,
\* undefined for anything else (the index lists used here never read
\* built-in properties such as length)
GetProperty(v, key) ==
    IF v.t = "object" /\ \E i \in 1..Len(v.k) : v.k[i] = key
    THEN LET last == CHOOSE i \in 1..Len(v.k) :
                         /\ v.k[i] = key
                         /\ \A j \in 1..Len(v.k) : v.k[j] = key => j <= i
         IN  v.e[last]
    ELSE JUndefined

-----------------------------------------------------------------------------
(* JSON.parse over tokens *)

ParseFail == [ok |-> FALSE, v |-> JUndefined, i |-> 0]
ParseOk(val, next) == [ok |-> TRUE, v |-> val, i |-> next]

RECURSIVE SkipWS(_, _)
SkipWS(t, i) == IF i <= Len(t) /\ t[i] \in WS THEN SkipWS(t, i + 1) ELSE i

RECURSIVE ParseDigits(_, _, _)
ParseDigits(t, i, acc) ==
    IF i <= Len(t) /\ t[i] \in Digits
    THEN ParseDigits(t, i + 1, acc * 10 + DigitVal(t[i]))
    ELSE ParseOk(JNum(acc), i)

\* a JSON number: 0, or a non-zero digit followed by digits
ParseNumber(t, i) ==
    IF t[i] = "0" THEN ParseOk(JNum(0), i + 1) ELSE ParseDigits(t, i, 0)

RECURSIVE ParseStringBody(_, _, _)
ParseStringBody(t, i, acc) ==
    IF i > Len(t) THEN ParseFail
    ELSE IF t[i] = QUOTE THEN ParseOk(JStr(acc), i + 1)
    ELSE IF t[i] = "\n" THEN ParseFail
    ELSE ParseStringBody(t, i + 1, Append(acc, t[i]))

RECURSIVE ParseValue(_, _)
RECURSIVE ParseElements(_, _, _)
RECURSIVE ParseMembers(_, _, _, _)

ParseValue(t, i0) ==
    LET i == SkipWS(t, i0) IN
    IF i > Len(t) THEN ParseFail
    ELSE IF t[i] \in Digits THEN ParseNumber(t, i)
    ELSE IF t[i] = QUOTE THEN ParseStringBody(t, i + 1, <<>>)
    ELSE IF t[i] = "null" THEN ParseOk(JNull, i + 1)
    ELSE IF t[i] = "true" THEN ParseOk(JBool(TRUE), i + 1)
    ELSE IF t[i] = "false" THEN ParseOk(JBool(FALSE), i + 1)
    ELSE IF t[i] = "[" THEN
        LET j == SkipWS(t, i + 1) IN
        IF j <= Len(t) /\ t[j] = "]" THEN ParseOk(JArr(<<>>), j + 1)
        ELSE ParseElements(t, i + 1, <<>>)
    ELSE IF t[i] = "{" THEN
        LET j == SkipWS(t, i + 1) IN
        IF j <= Len(t) /\ t[j] = "}" THEN ParseOk(JObj(<<>>, <<>>), j + 1)
        ELSE ParseMembers(t, i + 1, <<>>, <<>>)
    ELSE ParseFail

ParseElements(t, i, acc) ==
    LET r == ParseValue(t, i) IN
    IF ~r.ok THEN ParseFail
    ELSE LET j == SkipWS(t, r.i) IN
         IF j > Len(t) THEN ParseFail
         ELSE IF t[j] = "," THEN ParseElements(t, j + 1, Append(acc, r.v))
         ELSE IF t[j] = "]" THEN ParseOk(JArr(Append(acc, r.v)), j + 1)
         ELSE ParseFail

ParseMembers(t, i, keys, vals) ==
    LET a == SkipWS(t, i) IN
    IF a > Len(t) \/ t[a] # QUOTE THEN ParseFail
    ELSE LET key == ParseStringBody(t, a + 1, <<>>) IN
         IF ~key.ok THEN ParseFail
         ELSE LET c == SkipWS(t, key.i) IN
              IF c > Len(t) \/ t[c] # ":" THEN ParseFail
              ELSE LET r == ParseValue(t, c + 1) IN
                   IF ~r.ok THEN ParseFail
                   ELSE LET j == SkipWS(t, r.i) IN
                        IF j > Len(t) THEN ParseFail
                        ELSE IF t[j] = ","
                        THEN ParseMembers(t, j + 1, Append(keys, key.v.s), Append(vals, r.v))
                        ELSE IF t[j] = "}"
                        THEN ParseOk(JObj(Append(keys, key.v.s), Append(vals, r.v)), j + 1)
                        ELSE ParseFail

\* JSON.parse(t): ok = FALSE models the SyntaxError it throws
JSONparse(t) ==
    LET r == ParseValue(t, 1) IN
    IF r.ok /\ SkipWS(t, r.i) = Len(t) + 1 THEN [ok |-> TRUE, v |-> r.v]
    ELSE [ok |-> FALSE, v |-> JUndefined]

-----------------------------------------------------------------------------
(* String helpers of JavaScript, over token sequences *)

\* s.substring(from) with a 1-based from
From(s, from) == SubSeq(s, from, Len(s))

RECURSIVE TrimLeft(_)
TrimLeft(s) == IF s # <<>> /\ Head(s) \in WS THEN TrimLeft(Tail(s)) ELSE s

RECURSIVE TrimRight(_)
TrimRight(s) ==
    IF s # <<>> /\ s[Len(s)] \in WS THEN TrimRight(SubSeq(s, 1, Len(s) - 1)) ELSE s

\* s.trim()
Trim(s) == TrimRight(TrimLeft(s))

\* s.indexOf(c), 1-based; 0 when c does not occur (JavaScript's -1)
IndexOf(s, c) ==
    IF \E i \in 1..Len(s) : s[i] = c
    THEN CHOOSE i \in 1..Len(s) : s[i] = c /\ \A j \in 1..(i - 1) : s[j] # c
    ELSE 0

\* s.replace(/<fence>\n?/g, ''): every fence token goes, with one newline
\* right after it
RemoveFence(s, fence) ==
    SelectSeq([i \in 1..Len(s) |->
                  IF s[i] = "\n" /\ i > 1 /\ s[i - 1] = fence THEN fence ELSE s[i]],
              LAMBDA tok : tok # fence)

\* the two fence replacements (fence+json first, then the bare fence), then trim()
StripFences(s) == Trim(RemoveFence(RemoveFence(s, FENCEJSON), FENCE))

-----------------------------------------------------------------------------
(* AIUtils.extractJSON.  The result is a record: null = TRUE is the null   *)
(* return, otherwise text holds the returned string.                       *)

NullResult == [null |-> TRUE, text |-> <<>>]
TextResult(s) == [null |-> FALSE, text |-> s]

\* the closing bracket of an opening one
EndChar(startChar) == IF startChar = "[" THEN "]" ELSE "}"

\* bracketCount after the characters start..i have been scanned
BracketCount(s, start, i, startChar, endChar) ==
    Cardinality({j \in start..i : s[j] = startChar})
    - Cardinality({j \in start..i : s[j] = endChar})

\* the first position after start at which bracketCount is 0; 0 when none
MatchEnd(s, start) ==
    LET First(hits) == IF hits = {} THEN 0
                       ELSE CHOOSE i \in hits : \A j \in hits : i <= j
    IN  First({i \in (start + 1)..Len(s) :
                  BracketCount(s, start, i, s[start], EndChar(s[start])) = 0})

\* the trial-parse search: the longest prefix that JSON.parse accepts; 0 when none
TrialParseEnd(s) ==
    LET Last(good) == IF good = {} THEN 0
                      ELSE CHOOSE end \in good : \A other \in good : other <= end
    IN  Last({end \in 1..Len(s) : JSONparse(SubSeq(s, 1, end)).ok})

\* the text from the first bracket on: "[" is looked for first, then "{"
CleanResponse(stripped, firstArr, firstObj) ==
    IF firstArr > 1 THEN From(stripped, firstArr)
    ELSE IF firstArr = 0 /\ firstObj > 1 THEN From(stripped, firstObj)
    ELSE stripped

\* first copy ("Enhanced for better TinyLlama response parsing")
extractJSON(aiResponse) ==
    LET Matched(cleanResponse, matchEnd) ==
            IF matchEnd > 0 THEN TextResult(SubSeq(cleanResponse, 1, matchEnd))
            ELSE LET Tried(trialEnd) ==
                         IF trialEnd > 0
                         THEN TextResult(SubSeq(cleanResponse, 1, trialEnd))
                         ELSE TextResult(cleanResponse)
                 IN  Tried(TrialParseEnd(cleanResponse))
        Cleaned(cleanResponse) ==
            Matched(cleanResponse,
                    IF cleanResponse # <<>> /\ cleanResponse[1] \in {"[", "{"}
                    THEN MatchEnd(cleanResponse, 1) ELSE 0)
        Stripped(stripped) ==
            Cleaned(CleanResponse(stripped, IndexOf(stripped, "["), IndexOf(stripped, "{")))
    IN  IF Trim(aiResponse) = <<>> THEN NullResult
        ELSE Stripped(StripFences(Trim(aiResponse)))

\* Math.max(s.indexOf('['), s.indexOf('{')), 1-based, 0 when neither occurs
LaterBracket(s) ==
    IF IndexOf(s, "[") >= IndexOf(s, "{") THEN IndexOf(s, "[") ELSE IndexOf(s, "{")

\* the text from startIndex to the matching bracket, the whole text when
\* there is no bracket or no match
MatchedFrom(cleanResponse, startIndex) ==
    LET Matched(matchEnd) ==
            IF matchEnd > 0 THEN TextResult(SubSeq(cleanResponse, startIndex, matchEnd))
            ELSE TextResult(cleanResponse)
    IN  Matched(IF startIndex > 0 THEN MatchEnd(cleanResponse, startIndex) ELSE 0)

\* second copy
extractJSONSecond(aiResponse) ==
    LET Cleaned(cleanResponse) == MatchedFrom(cleanResponse, LaterBracket(cleanResponse))
        Stripped(stripped, jsonStart) ==
            Cleaned(IF jsonStart > 1 THEN From(stripped, jsonStart) ELSE stripped)
        Located(stripped) == Stripped(stripped, LaterBracket(stripped))
    IN  IF Trim(aiResponse) = <<>> THEN NullResult
        ELSE Located(StripFences(Trim(aiResponse)))

\* the extractJSON of the AIUtils copy that is loaded
AIUtilsExtractJSON(copy, aiResponse) ==
    IF copy = 1 THEN extractJSON(aiResponse) ELSE extractJSONSecond(aiResponse)

-----------------------------------------------------------------------------
(* The texts an oracle answers with, written as the prompts ask for them   *)

DigitTok(d) ==
    CASE d = 0 -> "0" [] d = 1 -> "1" [] d = 2 -> "2" [] d = 3 -> "3"
      [] d = 4 -> "4" [] d = 5 -> "5" [] d = 6 -> "6" [] d = 7 -> "7"
      [] d = 8 -> "8" [] OTHER -> "9"

\* the decimal digits of a natural number
RECURSIVE NumText(_)
NumText(n) == IF n < 10 THEN <<DigitTok(n)>> ELSE NumText(n \div 10) \o <<DigitTok(n % 10)>>

\* "word"
StrText(w) == <<QUOTE, w, QUOTE>>

\* e1,e2,...,en
RECURSIVE CommaJoin(_)
CommaJoin(parts) ==
    IF parts = <<>> THEN <<>>
    ELSE IF Len(parts) = 1 THEN parts[1]
    ELSE parts[1] \o <<",">> \o CommaJoin(Tail(parts))

\* [e1,e2,...,en]
ArrText(parts) == <<"[">> \o CommaJoin(parts) \o <<"]">>

\* {"k1":v1,...,"kn":vn}
ObjText(keys, parts) ==
    <<"{">> \o CommaJoin([i \in 1..Len(keys) |-> StrText(keys[i]) \o <<":">> \o parts[i]])
            \o <<"}">>

\* [i1,i2,...,in]
IndexListText(indices) == ArrText([i \in 1..Len(indices) |-> NumText(indices[i])])

\* {"relevant":[i1,...,in]}
RelevantText(indices) == ObjText(<<"relevant">>, <<IndexListText(indices)>>)

\* {"painPoints":[...],"trendingIdeas":[...],"contentIdeas":[...]}
CategorizationText(pain, trending, content) ==
    ObjText(<<"painPoints", "trendingIdeas", "contentIdeas">>,
            <<IndexListText(pain), IndexListText(trending), IndexListText(content)>>)

-----------------------------------------------------------------------------
(* Query expansion: QueryExpansionService (modular) and AIService (legacy) *)

\* a focus area; isCustom and isFallback are FALSE where JavaScript leaves
\* the property absent
FocusArea(title, description, expandedQuery, category) ==
    [title |-> title, description |-> description, expandedQuery |-> expandedQuery,
     category |-> category, isCustom |-> FALSE, isFallback |-> FALSE]

\* a custom option that trims the query instead of echoing it: the variant
\* the verbatim requirement of C1 must tell apart
CustomOptionTrimmed(q) ==
    [title |-> <<"Custom Topic">>,
     description |-> <<"Specify your own specific area of interest">>,
     expandedQuery |-> Trim(q), category |-> JStr(<<"custom">>),
     isCustom |-> TRUE, isFallback |-> FALSE]

\* the custom option pushed last on every path
CustomOption(q) ==
    [title |-> <<"Custom Topic">>,
     description |-> <<"Specify your own specific area of interest">>,
     expandedQuery |-> q, category |-> JStr(<<"custom">>),
     isCustom |-> TRUE, isFallback |-> FALSE]

\* one template entry: expandedQuery is the query followed by fixed words
Template(q, title, description, suffix, category) ==
    FocusArea(<<title>>, <<description>>, q \o <<suffix>>, JStr(<<category>>))

\* token.toLowerCase()
LowerTok(tok) ==
    CASE tok = "Sales" -> "sales" [] tok = "PLANT" -> "plant"
      [] tok = "Marriage" -> "marriage" [] OTHER -> tok

\* query.toLowerCase()
ToLowerCase(q) == [i \in 1..Len(q) |-> LowerTok(q[i])]

\* lowerQuery.includes(word), at the granularity of whole tokens
Includes(lowerQuery, word) == \E i \in 1..Len(lowerQuery) : lowerQuery[i] = word

\* QueryExpansionService.getFallbackQueryExpansion
getFallbackQueryExpansion(q) ==
    LET lowerQuery == ToLowerCase(q)
        subtopics ==
            IF Includes(lowerQuery, "sales") \/ Includes(lowerQuery, "marketing")
               \/ Includes(lowerQuery, "business")
            THEN << Template(q, "Sales Struggles", "Real sales challenges and frustrations", " struggling problems difficult", "problems"),
                    Template(q, "Sales Success", "Success stories and wins", " success story win achieved", "success"),
                    Template(q, "Sales Tools", "Tools and software people use", " tools software CRM platform", "tools"),
                    Template(q, "Sales Questions", "Questions people ask about sales", " how to help advice", "questions"),
                    Template(q, "Sales Experiences", "Personal sales experiences and stories", " experience story happened", "experiences"),
                    Template(q, "Sales Trends", "Current trends in sales", " trends latest popular", "trends") >>
            ELSE IF Includes(lowerQuery, "plant") \/ Includes(lowerQuery, "disease")
            THEN << Template(q, "Plant Problems", "Plant issues and disease symptoms", " dying yellow leaves problems", "problems"),
                    Template(q, "Plant Care", "How people care for their plants", " care tips watering fertilizing", "experiences"),
                    Template(q, "Plant Solutions", "What worked to fix plant issues", " fixed cured treatment worked", "success"),
                    Template(q, "Plant Questions", "Questions about plant care", " help identify what wrong", "questions"),
                    Template(q, "Plant Products", "Products and treatments people use", " fertilizer spray treatment product", "tools"),
                    Template(q, "Plant Trends", "Trending plant topics", " trending popular viral", "trends") >>
            ELSE << Template(q, "Real Experiences", "Personal experiences and stories", " experience story happened personal", "experiences"),
                    Template(q, "Common Problems", "Problems and frustrations people have", " problems issues struggling difficult", "problems"),
                    Template(q, "Success Stories", "What worked and success stories", " success worked amazing great", "success"),
                    Template(q, "Questions Asked", "Questions people ask about this", " help advice how to", "questions"),
                    Template(q, "Tools & Products", "Tools and products people mention", " tools products software app", "tools"),
                    Template(q, "Current Trends", "What's trending about this topic", " trends latest popular viral", "trends") >>
    IN  Append(subtopics, CustomOption(q))

\* the generic template of the legacy service and its title customisation
LegacyBaseTopics(q, lowerQuery) ==
    LET prefix ==
            IF Includes(lowerQuery, "health") \/ Includes(lowerQuery, "medical")
               \/ Includes(lowerQuery, "doctor") THEN <<"Health Experiences", "Health Problems", "Health Success">>
            ELSE IF Includes(lowerQuery, "tech") \/ Includes(lowerQuery, "software")
               \/ Includes(lowerQuery, "app") THEN <<"Tech Experiences", "Tech Problems", "Tech Success">>
            ELSE IF Includes(lowerQuery, "education") \/ Includes(lowerQuery, "school")
               \/ Includes(lowerQuery, "learn") THEN <<"Learning Experiences", "Learning Problems", "Learning Success">>
            ELSE IF Includes(lowerQuery, "food") \/ Includes(lowerQuery, "recipe")
               \/ Includes(lowerQuery, "cook") THEN <<"Food Experiences", "Cooking Problems", "Cooking Success">>
            ELSE IF Includes(lowerQuery, "travel") \/ Includes(lowerQuery, "vacation")
               \/ Includes(lowerQuery, "trip") THEN <<"Travel Experiences", "Travel Problems", "Travel Success">>
            ELSE <<"Real Experiences", "Common Problems", "Success Stories">>
    IN  << Template(q, prefix[1], "Personal experiences and stories", " experience story happened personal", "experiences"),
           Template(q, prefix[2], "Problems and frustrations people have", " problems issues struggling difficult", "problems"),
           Template(q, prefix[3], "What worked and success stories", " success worked amazing great", "success"),
           Template(q, "Questions Asked", "Questions people ask about this", " help advice how to", "questions"),
           Template(q, "Tools & Products", "Tools and products people mention", " tools products software app", "tools") >>

\* AIService.getFallbackQueryExpansion (legacy)
LegacyGetFallbackQueryExpansion(q) ==
    LET lowerQuery == ToLowerCase(q)
        subtopics ==
            IF Includes(lowerQuery, "sales") \/ Includes(lowerQuery, "marketing")
               \/ Includes(lowerQuery, "business")
            THEN << Template(q, "Sales Struggles", "Real sales challenges and frustrations", " struggling problems difficult", "problems"),
                    Template(q, "Sales Success", "Success stories and wins", " success story win achieved", "success"),
                    Template(q, "Sales Tools", "Tools and software people use", " tools software CRM platform", "tools"),
                    Template(q, "Sales Questions", "Questions people ask about sales", " how to help advice", "questions"),
                    Template(q, "Sales Experiences", "Personal sales experiences and stories", " experience story happened", "experiences") >>
            ELSE IF Includes(lowerQuery, "plant") \/ Includes(lowerQuery, "disease")
            THEN << Template(q, "Plant Problems", "Plant issues and disease symptoms", " dying yellow leaves problems", "problems"),
                    Template(q, "Plant Care", "How people care for their plants", " care tips watering fertilizing", "experiences"),
                    Template(q, "Plant Solutions", "What worked to fix plant issues", " fixed cured treatment worked", "success"),
                    Template(q, "Plant Questions", "Questions about plant care", " help identify what wrong", "questions"),
                    Template(q, "Plant Products", "Products and treatments people use", " fertilizer spray treatment product", "tools") >>
            ELSE IF Includes(lowerQuery, "marriage") \/ Includes(lowerQuery, "proposal")
            THEN << Template(q, "Proposal Disasters", "Failed proposal stories and mistakes", " failed disaster mistake wrong", "problems"),
                    Template(q, "Creative Ideas", "Unique and creative proposal stories", " creative unique romantic amazing", "experiences"),
                    Template(q, "Ring Shopping", "Ring buying experiences and advice", " ring shopping jewelry diamond", "experiences"),
                    Template(q, "Nervous Stories", "Being nervous and anxiety experiences", " nervous anxious scared worried", "experiences"),
                    Template(q, "Proposal Planning", "Planning help and advice questions", " planning help advice how to", "questions"),
                    Template(q, "Surprise Stories", "Surprise proposal moments and reactions", " surprise reaction shocked cried", "success") >>
            ELSE IF Includes(lowerQuery, "government") \/ Includes(lowerQuery, "political")
               \/ Includes(lowerQuery, "politics")
            THEN << Template(q, "Government Services", "Experiences with government services and bureaucracy", " services bureaucracy dmv passport visa", "experiences"),
                    Template(q, "Political Issues", "Current political problems and controversies", " problems issues controversy scandal", "problems"),
                    Template(q, "Policy Success", "Successful government policies and programs", " success worked policy program effective", "success"),
                    Template(q, "Voting & Elections", "Voting experiences and election discussions", " voting election ballot democracy", "experiences"),
                    Template(q, "Government Help", "Questions about government assistance and programs", " help assistance benefits programs how to", "questions"),
                    Template(q, "Government Tools", "Government websites, apps, and digital services", " website app digital portal online", "tools") >>
            ELSE LegacyBaseTopics(q, lowerQuery)
    IN  Append(subtopics, CustomOption(q))

\* a flagging loop that stops before the custom option: the variant C2 must
\* tell apart
FlagFallbackTemplatesOnly(fallback) ==
    [i \in 1..Len(fallback) |->
        [fallback[i] EXCEPT !.isFallback = (i < Len(fallback))]]

\* fallback.forEach(item => { item.isFallback = true })
FlagFallback(fallback) == [i \in 1..Len(fallback) |-> [fallback[i] EXCEPT !.isFallback = TRUE]]

\* the filter predicate of the validation step
ValidSubtopic(subtopic) ==
    /\ Truthy(subtopic)
    /\ TypeofObject(subtopic)
    /\ Truthy(GetProperty(subtopic, <<"title">>))
    /\ GetProperty(subtopic, <<"title">>).t = "string"
    /\ Truthy(GetProperty(subtopic, <<"description">>))
    /\ GetProperty(subtopic, <<"description">>).t = "string"
    /\ Truthy(GetProperty(subtopic, <<"expandedQuery">>))
    /\ GetProperty(subtopic, <<"expandedQuery">>).t = "string"

\* a map step that spreads the oracle's entry into the cleaned one, so that
\* a flag the oracle wrote survives
CleanSubtopicSpread(subtopic) ==
    [title |-> Trim(GetProperty(subtopic, <<"title">>).s),
     description |-> Trim(GetProperty(subtopic, <<"description">>).s),
     expandedQuery |-> Trim(GetProperty(subtopic, <<"expandedQuery">>).s),
     category |-> IF Truthy(GetProperty(subtopic, <<"category">>))
                  THEN GetProperty(subtopic, <<"category">>)
                  ELSE JStr(<<"experiences">>),
     isCustom |-> FALSE,
     isFallback |-> Truthy(GetProperty(subtopic, <<"isFallback">>))]

\* the map step: trimmed fields, category defaulted to 'experiences'
CleanSubtopic(subtopic) ==
    FocusArea(Trim(GetProperty(subtopic, <<"title">>).s),
              Trim(GetProperty(subtopic, <<"description">>).s),
              Trim(GetProperty(subtopic, <<"expandedQuery">>).s),
              IF Truthy(GetProperty(subtopic, <<"category">>))
              THEN GetProperty(subtopic, <<"category">>)
              ELSE JStr(<<"experiences">>))

\* list.slice(0, n)
Slice(list, n) == SubSeq(list, 1, IF Len(list) < n THEN Len(list) ELSE n)

\* subtopics.filter(valid).map(clean).slice(0, 6)
ValidSubtopics(subtopics) ==
    LET kept == SelectSeq(subtopics, ValidSubtopic)
    IN  Slice([i \in 1..Len(kept) |-> CleanSubtopic(kept[i])], 6)

\* a padding that appends copies of one and the same alternate of the last
\* validated entry
PadToSixFromLastValid(validSubtopics) ==
    IF Len(validSubtopics) < 6 /\ Len(validSubtopics) > 0
    THEN validSubtopics \o
         [i \in 1..(6 - Len(validSubtopics)) |->
            [validSubtopics[Len(validSubtopics)] EXCEPT
                !.title = validSubtopics[Len(validSubtopics)].title \o <<" (Alternate)">>,
                !.expandedQuery = validSubtopics[Len(validSubtopics)].expandedQuery
                                      \o <<" alternative">>]]
    ELSE validSubtopics

\* the while loop that clones the last entry until there are 6
RECURSIVE PadToSix(_)
PadToSix(validSubtopics) ==
    IF Len(validSubtopics) < 6 /\ Len(validSubtopics) > 0
    THEN LET existing == validSubtopics[Len(validSubtopics)]
         IN  PadToSix(Append(validSubtopics,
                 [existing EXCEPT !.title = existing.title \o <<" (Alternate)">>,
                                  !.expandedQuery = existing.expandedQuery \o <<" alternative">>]))
    ELSE validSubtopics

\* the inline extraction of the legacy generateQueryExpansion: text before
\* the first "[" is dropped, then the matching "]" is searched
LegacyExtractArray(aiResponse) ==
    LET Cleaned(cleanResponse) == MatchedFrom(cleanResponse, IndexOf(cleanResponse, "["))
        Stripped(stripped, firstBracket) ==
            Cleaned(IF firstBracket > 1 THEN From(stripped, firstBracket) ELSE stripped)
        Located(stripped) == Stripped(stripped, IndexOf(stripped, "["))
    IN  Located(StripFences(Trim(aiResponse)))

\* What an oracle call gives its caller: threw = TRUE when OllamaClient.call
\* raised, else the response text.
Threw == [threw |-> TRUE, text |-> <<>>]
Answered(t) == [threw |-> FALSE, text |-> t]

\* One attempt of generateQueryExpansion on the outcome of its oracle call:
\* outcome names the branch taken, subtopics is the returned list on success.
AttemptFailed(why) == [outcome |-> why, subtopics |-> <<>>]

ExpansionAttempt(svc, copy, q, response) ==
    LET Validated(validSubtopics) ==
            IF validSubtopics = <<>> THEN AttemptFailed("no_valid")
            ELSE [outcome |-> "success",
                  subtopics |-> Slice(Append(PadToSix(validSubtopics), CustomOption(q)), 7)]
        Parsed(parsed) ==
            IF ~parsed.ok THEN AttemptFailed("parse_error")
            ELSE IF ~IsArray(parsed.v) THEN AttemptFailed("not_array")
            ELSE IF parsed.v.e = <<>> THEN AttemptFailed("empty_array")
            ELSE Validated(ValidSubtopics(parsed.v.e))
        Extracted(jsonMatch) ==
            IF svc # "AIService" /\ (jsonMatch.null \/ jsonMatch.text = <<>>)
            THEN AttemptFailed("no_json")
            ELSE Parsed(JSONparse(jsonMatch.text))
    IN  IF response.threw THEN AttemptFailed("call_error")
        ELSE IF Trim(response.text) = <<>> THEN AttemptFailed("empty_text")
        ELSE Extracted(IF svc = "AIService" THEN LegacyExtractArray(response.text)
                       ELSE AIUtilsExtractJSON(copy, response.text))

\* a fallback path that hands back no focus area at all
ExpansionFallbackReturnsNothing(svc, q) == <<>>

\* the fallback path taken after the third failed attempt
ExpansionFallback(svc, q) ==
    FlagFallback(IF svc = "AIService" THEN LegacyGetFallbackQueryExpansion(q)
                 ELSE getFallbackQueryExpansion(q))

-----------------------------------------------------------------------------
(* Posts.  A post is its id; the id of the i-th post of an input list is   *)
(* 1000 + i, so that an id is never a valid index.  The content and the    *)
(* engagement of a post are functions of the corpus and the id.            *)

PostId(i) == 1000 + i
PostNumber(p) == p - 1000
PostList(n) == [i \in 1..n |-> PostId(i)]

\* post.engagement || 0
Engagement(c, p) ==
    IF c = "plain" THEN 0
    ELSE IF c = "ties" THEN (IF PostNumber(p) % 3 = 1 THEN 5 ELSE 0)
    ELSE IF c = "skewed" THEN (IF PostNumber(p) = 1 THEN 0 ELSE 10)
    ELSE CASE PostNumber(p) % 5 = 0 -> 90
           [] PostNumber(p) % 5 = 1 -> 10
           [] PostNumber(p) % 5 = 2 -> 0
           [] PostNumber(p) % 5 = 3 -> 40
           [] OTHER -> 10

\* the engagement values that occur, highest first
EngagementLevels == <<90, 40, 10, 5, 0>>

\* how many of painKeywords / trendingKeywords / contentKeywords the
\* lower-cased content of a post includes
PainScore(c, p) ==
    IF c = "ties" THEN (IF PostNumber(p) % 3 = 1 THEN 2 ELSE 0)
    ELSE IF c = "skewed" THEN (IF PostNumber(p) = 1 THEN 1 ELSE 0)
    ELSE IF c = "mixed" /\ PostNumber(p) % 4 = 1 THEN 2 ELSE 0
TrendingScore(c, p) ==
    IF c = "ties" THEN (IF PostNumber(p) % 3 = 1 THEN 1 ELSE 0)
    ELSE IF c = "skewed" THEN (IF PostNumber(p) = 1 THEN 0 ELSE 1)
    ELSE IF c = "mixed" /\ PostNumber(p) % 4 = 2 THEN 1 ELSE 0
ContentScore(c, p) == IF c = "mixed" /\ PostNumber(p) % 4 \in {1, 3} THEN 1 ELSE 0

-----------------------------------------------------------------------------
(* Index selection and the rebalancer (AIUtils)                            *)

\* x || []
OrEmpty(v) == IF Truthy(v) THEN v ELSE JArr(<<>>)

\* index >= 1 && index <= posts.length, for a number
InRange(postList, index) ==
    index.t = "number" /\ index.n >= 1 /\ index.n <= Len(postList)

\* a chain that maps every index to something: an index out of range
\* becomes a post id of its own
IndexChainUnchecked(postList, indices) ==
    [j \in 1..Len(indices) |->
        IF InRange(postList, indices[j]) THEN postList[indices[j].n]
        ELSE PostId(indices[j].n)]

\* indices.filter(index => index >= 1 && index <= posts.length)
\*        .map(index => posts[index - 1]).filter(Boolean)
\* as written in filterBatchRelevance; performCategorySpecificAnalysis has
\* the same chain
IndexChain(postList, indices) ==
    [j \in 1..Len(SelectSeq(indices, LAMBDA index : InRange(postList, index))) |->
        postList[SelectSeq(indices, LAMBDA index : InRange(postList, index))[j].n]]

\* AIUtils.getCategorizedPosts
getCategorizedPosts(postList, indices) == IndexChain(postList, indices)

Categories(pain, trending, content) ==
    [painPoints |-> pain, trendingIdeas |-> trending, contentIdeas |-> content]
NoCategories == Categories(<<>>, <<>>, <<>>)

\* a rebalancer that tops up every category shorter than the minimum
ensureAllCategoriesTopUp(cats, allPosts) ==
    LET Fill(current, otherPosts) ==
            IF Len(current) < (IF Len(allPosts) \div 10 > 1 THEN Len(allPosts) \div 10 ELSE 1)
                  /\ allPosts # <<>>
            THEN current \o Slice(otherPosts, IF Len(allPosts) \div 10 > 1
                                              THEN Len(allPosts) \div 10 ELSE 1)
            ELSE current
        WithContent(pain, trending) ==
            Categories(pain, trending, Fill(cats.contentIdeas, pain \o trending))
        WithTrending(pain) ==
            WithContent(pain, Fill(cats.trendingIdeas, pain \o cats.contentIdeas))
    IN  WithTrending(Fill(cats.painPoints, cats.trendingIdeas \o cats.contentIdeas))

\* a rebalancer that also cuts every category down to the minimum count
ensureAllCategoriesCapped(cats, allPosts) ==
    LET Cap(list) == Slice(list, IF Len(allPosts) \div 10 > 1 THEN Len(allPosts) \div 10 ELSE 1)
        Fill(current, otherPosts) ==
            IF current = <<>> /\ allPosts # <<>> THEN Cap(otherPosts) ELSE Cap(current)
        WithContent(pain, trending) ==
            Categories(pain, trending, Fill(cats.contentIdeas, pain \o trending))
        WithTrending(pain) ==
            WithContent(pain, Fill(cats.trendingIdeas, pain \o cats.contentIdeas))
    IN  WithTrending(Fill(cats.painPoints, cats.trendingIdeas \o cats.contentIdeas))

\* a rebalancer that refills an empty category from the head of the post
\* list it was given
ensureAllCategoriesFromAllPosts(cats, allPosts) ==
    LET Fill(current) ==
            IF current = <<>> /\ allPosts # <<>>
            THEN Slice(allPosts, IF Len(allPosts) \div 10 > 1 THEN Len(allPosts) \div 10 ELSE 1)
            ELSE current
    IN  Categories(Fill(cats.painPoints), Fill(cats.trendingIdeas), Fill(cats.contentIdeas))

\* AIUtils.ensureAllCategoriesHaveResults: the three fills run in order,
\* each one seeing the fills before it
ensureAllCategoriesHaveResults(cats, allPosts) ==
    LET Fill(current, otherPosts) ==
            IF current = <<>> /\ allPosts # <<>>
            THEN Slice(otherPosts, IF Len(allPosts) \div 10 > 1 THEN Len(allPosts) \div 10 ELSE 1)
            ELSE current
        WithContent(pain, trending) ==
            Categories(pain, trending, Fill(cats.contentIdeas, pain \o trending))
        WithTrending(pain) ==
            WithContent(pain, Fill(cats.trendingIdeas, pain \o cats.contentIdeas))
    IN  WithTrending(Fill(cats.painPoints, cats.trendingIdeas \o cats.contentIdeas))

-----------------------------------------------------------------------------
(* RelevanceFilterService and the legacy AIService filter                  *)

\* JSON.parse(jsonMatch): JSON.parse(null) is null, it does not throw
ParseMatch(jsonMatch) ==
    IF jsonMatch.null THEN [ok |-> TRUE, v |-> JNull] ELSE JSONparse(jsonMatch.text)

\* what a stage did with one oracle response: failed = TRUE when it took
\* its failure path (why names the branch), output is what it returned
\* a failure path that reports the noRelevantContent signal
StageFailedAsNoContent(why, output) ==
    [failed |-> FALSE, why |-> "noRelevantContent", output |-> <<>>]

\* a failure path that returns nothing instead of what its catch returns
StageFailedReturnsNothing(why, output) == [failed |-> TRUE, why |-> why, output |-> <<>>]

StageFailed(why, output) == [failed |-> TRUE, why |-> why, output |-> output]
StageDone(why, output) == [failed |-> FALSE, why |-> why, output |-> output]

\* a batch filter without its catch: a failed call leaves the batch without
\* a result
filterBatchRelevanceUncaught(copy, batch, response) ==
    IF response.threw THEN [failed |-> TRUE, why |-> "call_error", output |-> <<>>]
    ELSE [failed |-> FALSE, why |-> "filtered", output |-> batch]

\* RelevanceFilterService.filterBatchRelevance: the catch returns the batch
filterBatchRelevance(copy, batch, response) ==
    LET Indexed(relevantIndices) ==
            IF ~IsArray(relevantIndices) THEN StageFailed("type_error", batch)
            ELSE StageDone("filtered", IndexChain(batch, relevantIndices.e))
        Parsed(parsed) ==
            IF ~parsed.ok THEN StageFailed("parse_error", batch)
            ELSE IF PropertyThrows(parsed.v) THEN StageFailed("type_error", batch)
            ELSE Indexed(OrEmpty(GetProperty(parsed.v, <<"relevant">>)))
    IN  IF response.threw THEN StageFailed("call_error", batch)
        ELSE IF response.text = <<>> THEN StageFailed("no_response", batch)
        ELSE Parsed(ParseMatch(AIUtilsExtractJSON(copy, response.text)))

\* AIService.filterBatchRelevance (legacy): JSON.parse on the raw text; the
\* log line after the selection reads batchSize, which is not in scope
\* there, so the selection always ends in the catch
LegacyFilterBatchRelevance(batch, response) ==
    LET Indexed(relevantIndices) ==
            IF ~IsArray(relevantIndices) THEN StageFailed("type_error", batch)
            ELSE StageFailed("reference_error", batch)
        Parsed(parsed) ==
            IF ~parsed.ok THEN StageFailed("parse_error", batch)
            ELSE IF PropertyThrows(parsed.v) THEN StageFailed("type_error", batch)
            ELSE Indexed(OrEmpty(GetProperty(parsed.v, <<"relevant">>)))
    IN  IF response.threw THEN StageFailed("call_error", batch)
        ELSE IF response.text = <<>> THEN StageFailed("no_response", batch)
        ELSE Parsed(JSONparse(response.text))

\* const batchSize = 50
BatchSize == 50

\* posts.slice(i, i + batchSize) for the 0-based i
BatchAt(postList, i) ==
    SubSeq(postList, i + 1, IF i + BatchSize < Len(postList) THEN i + BatchSize
                            ELSE Len(postList))

\* What the rating tables do when AIUtils.getRatingInsights reads them:
\* no client configured, an error from the analytics query, a thrown
\* exception, no row for the query, rows with and without learned patterns
Feedbacks == {"unconfigured", "query_error", "throws", "no_rows", "rows", "rows_without_patterns"}

NullInsights == [null |-> TRUE, list |-> <<>>]

Insight(platform, avgRating, totalRatings, suggestions) ==
    [platform |-> platform, avg_rating |-> avgRating, total_ratings |-> totalRatings,
     improvement_suggestions |-> suggestions]

\* AIUtils.getRatingInsights: null unless the analytics table has rows for
\* the query
getRatingInsights(store) ==
    CASE store = "rows" ->
            [null |-> FALSE,
             list |-> <<Insight("reddit", "4.5", "12", "more how-to posts"),
                        Insight("x", "2", "3", "null")>>]
      [] store = "rows_without_patterns" ->
            [null |-> FALSE, list |-> <<Insight("reddit", "4.5", "12", "null")>>]
      [] OTHER -> NullInsights

\* a rating context that reads the length of the insights without asking
\* whether there are any
RatingContextUnguarded(ratingInsights) ==
    [threw |-> ratingInsights.null, text |-> <<>>]

\* the ratingContext of the batch prompt: empty unless there are insights
RatingContext(ratingInsights) ==
    [threw |-> FALSE,
     text |-> IF ~ratingInsights.null /\ Len(ratingInsights.list) > 0
              THEN << <<"LEARNING FROM USER FEEDBACK">> >>
                       \o [i \in 1..Len(ratingInsights.list) |->
                              <<ratingInsights.list[i].platform,
                                ratingInsights.list[i].avg_rating,
                                ratingInsights.list[i].total_ratings,
                                IF ratingInsights.list[i].improvement_suggestions = "null"
                                THEN "No specific suggestions"
                                ELSE ratingInsights.list[i].improvement_suggestions>>]
              ELSE <<>>]

\* the numbers the batch prompt shows next to its posts: offset + index + 1
\* for the 0-based index
PromptNumbers(batch, offset) == [i \in 1..Len(batch) |-> offset + (i - 1) + 1]

\* AIUtils.getFallbackSemanticContext: the template of the first keyword
\* pair the lower-cased query includes, else the generic one
getFallbackSemanticContext(q) ==
    LET First(lowerQuery) ==
            IF Includes(lowerQuery, "sales") \/ Includes(lowerQuery, "marketing")
            THEN <<"Business Context: ">>
            ELSE IF Includes(lowerQuery, "theme park") \/ Includes(lowerQuery, "amusement")
            THEN <<"Entertainment Context: ">>
            ELSE IF Includes(lowerQuery, "cooking") \/ Includes(lowerQuery, "recipe")
            THEN <<"Food Context: ">>
            ELSE IF Includes(lowerQuery, "travel") \/ Includes(lowerQuery, "vacation")
            THEN <<"Travel Context: ">>
            ELSE IF Includes(lowerQuery, "health") \/ Includes(lowerQuery, "fitness")
            THEN <<"Health Context: ">>
            ELSE IF Includes(lowerQuery, "programming") \/ Includes(lowerQuery, "coding")
            THEN <<"Technology Context: ">>
            ELSE <<"Context: Discussions about ">> \o q
    IN  First(ToLowerCase(q))

\* a gloss step without its catch: a failed call rejects
generateSemanticContextUncaught(q, response) ==
    [threw |-> response.threw, text |-> response.text]

\* AIUtils.generateSemanticContext on the outcome of its oracle call: the
\* catch and an empty answer both give the template
generateSemanticContext(q, response) ==
    [threw |-> FALSE,
     text |-> IF response.threw \/ response.text = <<>>
              THEN getFallbackSemanticContext(q)
              ELSE response.text]

\* filterBatchRelevance from the read of the feedback to its return: the
\* prompt it sends and what it returns on the response
FilterBatchWithFeedback(copy, batch, offset, store, response) ==
    LET Built(ratingContext) ==
            [prompt |-> [numbers |-> PromptNumbers(batch, offset),
                         ratingContext |-> ratingContext.text],
             run |-> IF ratingContext.threw THEN StageFailed("type_error", batch)
                     ELSE filterBatchRelevance(copy, batch, response)]
    IN  Built(RatingContext(getRatingInsights(store)))

-----------------------------------------------------------------------------
(* SegregationService                                                      *)

\* a category analysis that returns an empty list where the signal belongs
NoRelevantContentAsEmptyList(postList, relevant) == StageDone("selected", <<>>)

\* the object performCategorySpecificAnalysis returns when fewer than
\* minRelevantPosts = 1 posts were selected
NoRelevantContent(postList, relevant) ==
    [failed |-> FALSE, why |-> "noRelevantContent", output |-> <<>>,
     availablePosts |-> Len(relevant), totalPosts |-> Len(postList)]

\* performCategorySpecificAnalysis: every failure returns []; fewer than 1
\* selected post returns the noRelevantContent object
performCategorySpecificAnalysis(copy, postList, response) ==
    LET Selected(relevant) ==
            IF Len(relevant) < 1 THEN NoRelevantContent(postList, relevant)
            ELSE StageDone("selected", relevant)
        Indexed(relevantIndices) ==
            IF ~IsArray(relevantIndices) THEN StageFailed("type_error", <<>>)
            ELSE Selected(IndexChain(postList, relevantIndices.e))
        Parsed(parsed) ==
            IF ~parsed.ok THEN StageFailed("parse_error", <<>>)
            ELSE IF PropertyThrows(parsed.v) THEN StageFailed("type_error", <<>>)
            ELSE Indexed(OrEmpty(GetProperty(parsed.v, <<"relevant">>)))
    IN  IF response.threw THEN StageFailed("call_error", <<>>)
        ELSE IF response.text = <<>> THEN StageFailed("no_response", <<>>)
        ELSE Parsed(ParseMatch(AIUtilsExtractJSON(copy, response.text)))

\* aiSentimentAnalysis: every failure is rethrown (failed = TRUE, no
\* output); otherwise before holds the categories built from the indices and
\* output those after ensureAllCategoriesHaveResults
\* a bulk categorizer that fails open: no exception, empty categories
SentimentFailsOpen(why) ==
    [failed |-> FALSE, why |-> why, before |-> NoCategories, output |-> NoCategories]

SentimentThrew(why) ==
    [failed |-> TRUE, why |-> why, before |-> NoCategories, output |-> NoCategories]

aiSentimentAnalysis(copy, postList, response) ==
    LET Built(before) ==
            [failed |-> FALSE, why |-> "categorized", before |-> before,
             output |-> ensureAllCategoriesHaveResults(before, postList)]
        Indexed(pain, trending, content) ==
            IF ~IsArray(pain) \/ ~IsArray(trending) \/ ~IsArray(content)
            THEN SentimentThrew("type_error")
            ELSE Built(Categories(getCategorizedPosts(postList, pain.e),
                                  getCategorizedPosts(postList, trending.e),
                                  getCategorizedPosts(postList, content.e)))
        Parsed(parsed) ==
            IF ~parsed.ok THEN SentimentThrew("parse_error")
            ELSE IF PropertyThrows(parsed.v) THEN SentimentThrew("type_error")
            ELSE Indexed(OrEmpty(GetProperty(parsed.v, <<"painPoints">>)),
                         OrEmpty(GetProperty(parsed.v, <<"trendingIdeas">>)),
                         OrEmpty(GetProperty(parsed.v, <<"contentIdeas">>)))
    IN  IF response.threw THEN SentimentThrew("call_error")
        ELSE IF response.text = <<>> THEN SentimentThrew("no_response")
        ELSE Parsed(ParseMatch(AIUtilsExtractJSON(copy, response.text)))

\* posts.slice(0, maxPosts) with maxPosts = Math.min(posts.length, 100): the
\* posts the sentiment prompt lists, numbered from 1
SentimentPromptPosts(postList) == Slice(postList, 100)

\* posts.reduce((sum, post) => sum + (post.engagement || 0), 0)
RECURSIVE TotalEngagementFrom(_, _, _)
TotalEngagementFrom(c, postList, level) ==
    IF level > Len(EngagementLevels) THEN 0
    ELSE EngagementLevels[level]
             * Cardinality({i \in 1..Len(postList) :
                               Engagement(c, postList[i]) = EngagementLevels[level]})
         + TotalEngagementFrom(c, postList, level + 1)

TotalEngagement(c, postList) == TotalEngagementFrom(c, postList, 1)

\* list.sort((a, b) => (b.engagement || 0) - (a.engagement || 0)): a stable
\* sort by engagement, highest first
RECURSIVE SortFrom(_, _, _)
SortFrom(c, list, level) ==
    IF level > Len(EngagementLevels) THEN <<>>
    ELSE SelectSeq(list, LAMBDA p : Engagement(c, p) = EngagementLevels[level])
         \o SortFrom(c, list, level + 1)

SortByEngagement(c, list) == SortFrom(c, list, 1)

\* The scores are IEEE-754 doubles.  A double below 16 with a fraction of
\* at most 56 binary places is held as int + (hi * 2^28 + lo) / 2^56.
Limb == 2^28

Double(int, hi, lo) == [int |-> int, hi |-> hi, lo |-> lo]

\* the spacing of the doubles of the binade of int, in units of 2^-56
Grain(int) ==
    IF int >= 8 THEN 128 ELSE IF int >= 4 THEN 64 ELSE IF int >= 2 THEN 32
    ELSE IF int >= 1 THEN 16 ELSE 1

\* the double nearest to int + (hi * 2^28 + lo) / 2^56, ties to even
RoundToDouble(int, hi, lo) ==
    LET up == \/ 2 * (lo % Grain(int)) > Grain(int)
              \/ /\ 2 * (lo % Grain(int)) = Grain(int)
                 /\ (lo \div Grain(int)) % 2 = 1
        Carried(lo2) ==
            IF lo2 < Limb THEN Double(int, hi, lo2)
            ELSE IF hi + 1 < Limb THEN Double(int, hi + 1, 0)
            ELSE Double(int + 1, 0, 0)
    IN  Carried(lo - (lo % Grain(int)) + (IF up THEN Grain(int) ELSE 0))

\* x + k in double arithmetic, k a small non-negative integer
Plus(x, k) == RoundToDouble(x.int + k, x.hi, x.lo)

\* a > b for two doubles
Greater(a, b) ==
    \/ a.int > b.int
    \/ a.int = b.int /\ a.hi > b.hi
    \/ a.int = b.int /\ a.hi = b.hi /\ a.lo > b.lo

\* Math.max(a, b, c)
MathMax(a, b, c) ==
    IF ~Greater(b, a) /\ ~Greater(c, a) THEN a
    ELSE IF ~Greater(c, b) THEN b ELSE c

\* Math.log(engagement + 1) / 10 for the engagement values of the corpora
EngagementBonus(engagement) ==
    CASE engagement = 0 -> Double(0, 0, 0)
      [] engagement = 5 -> Double(0, 48097177, 4417130)
      [] engagement = 10 -> Double(0, 64368011, 26679130)
      [] engagement = 40 -> Double(0, 99685441, 29920712)
      [] engagement = 90 -> Double(0, 121087462, 230419240)

\* the three scores of the map step: keyword count + engagementBonus, and
\* for trending + (engagement > avgEngagement * 2 ? 1 : 0) after that
Scores(c, p, len, total) ==
    [painScore |-> Plus(EngagementBonus(Engagement(c, p)), PainScore(c, p)),
     trendingScore |-> Plus(Plus(EngagementBonus(Engagement(c, p)), TrendingScore(c, p)),
                            IF Engagement(c, p) * len > 2 * total THEN 1 ELSE 0),
     contentScore |-> Plus(EngagementBonus(Engagement(c, p)), ContentScore(c, p))]

\* the bucket the forEach of enhancedSentimentAnalysis pushes a post to:
\* the first of painScore, trendingScore that is === maxScore, else content
Bucket(c, p, len, total) ==
    LET Pick(scored) ==
            IF MathMax(scored.painScore, scored.trendingScore, scored.contentScore)
                   = scored.painScore
            THEN "painPoints"
            ELSE IF MathMax(scored.painScore, scored.trendingScore, scored.contentScore)
                        = scored.trendingScore
            THEN "trendingIdeas"
            ELSE "contentIdeas"
    IN  Pick(Scores(c, p, len, total))

\* SegregationService.enhancedSentimentAnalysis (the keyword classifier):
\* before holds the sorted buckets cut at 50
enhancedSentimentAnalysis(c, postList) ==
    LET Cut(name, total) ==
            Slice(SortByEngagement(c,
                      SelectSeq(postList,
                                LAMBDA p : Bucket(c, p, Len(postList), total) = name)), 50)
        Built(before) ==
            [failed |-> FALSE, why |-> "keywords", before |-> before,
             output |-> ensureAllCategoriesHaveResults(before, postList)]
        Scored(total) ==
            Built(Categories(Cut("painPoints", total), Cut("trendingIdeas", total),
                             Cut("contentIdeas", total)))
    IN  Scored(TotalEngagement(c, postList))

\* SegregationService.fallbackCategoryAnalysis: posts.sort(...) sorts the
\* array it was given in place and returns it, slice(0, 15) copies the
\* head; sorted is the caller's array after the call
fallbackCategoryAnalysis(c, postList) ==
    [sorted |-> SortByEngagement(c, postList),
     output |-> Slice(SortByEngagement(c, postList), 15)]

-----------------------------------------------------------------------------
(* AnalysisService: what the entry points return.  results is the flat     *)
(* list of performFocusedAnalysis, the three categories are those of       *)
(* categorizePosts; relevantCount and totalPosts are the two numbers the   *)
(* relevance score is the quotient of.                                     *)

Returned(kind, flat, cats, relevantCount, totalPosts, noRelevantContent) ==
    [kind |-> kind, results |-> flat, painPoints |-> cats.painPoints,
     trendingIdeas |-> cats.trendingIdeas, contentIdeas |-> cats.contentIdeas,
     relevantCount |-> relevantCount, totalPosts |-> totalPosts,
     noRelevantContent |-> noRelevantContent]

NoResult == Returned("none", <<>>, NoCategories, 0, 0, FALSE)

-----------------------------------------------------------------------------
(* OllamaClient.call: one HTTP request to the inference service.  An error *)
(* is its constructor name, its code, its message (a sequence of tokens in *)
(* which the word timeout is a token of its own) and whether it carries a  *)
(* response.                                                               *)

BaseUrl == "http://localhost:11434"
analysisModel == "tinyllama:1.1b"
segregationModel == "gpt2"

\* options.model || (options.useSegregationModel ? segregationModel : analysisModel)
ModelOf(options) ==
    IF options.model # "" THEN options.model
    ELSE IF options.useSegregationModel THEN segregationModel
    ELSE analysisModel

\* an option of the call: given = FALSE when the caller left it out.  A
\* temperature is held in tenths (0.3 is 3), a token budget as it is.
Omitted == [given |-> FALSE, value |-> 0]
Given(value) == [given |-> TRUE, value |-> value]

\* option || orElse: 0 and undefined are falsy
OrDefault(option, orElse) == IF option.given /\ option.value # 0 THEN option.value ELSE orElse

\* model.includes('tinyllama')
IncludesTinyllama(model) == model \in {"tinyllama:1.1b", "tinyllama:latest"}

\* the options object of the request body
RequestOptions(options) ==
    [temperature |-> OrDefault(options.temperature, 3),
     max_tokens |-> OrDefault(options.max_tokens,
                              IF IncludesTinyllama(ModelOf(options)) THEN 800 ELSE 1000),
     num_ctx |-> IF IncludesTinyllama(ModelOf(options)) THEN 2048 ELSE 4096]

NoRequestOptions == [temperature |-> 0, max_tokens |-> 0, num_ctx |-> 0]

\* a response body: nothing, or an object that may hold a response text and
\* an error text
NoData == [present |-> FALSE, response |-> <<>>, error |-> <<>>]
Data(responseText, errorText) ==
    [present |-> TRUE, response |-> responseText, error |-> errorText]

\* what the request meets: a refused connection, a timeout (of axios, code
\* ECONNABORTED, or of the socket, code ETIMEDOUT), or a response
Refused == [kind |-> "refused", code |-> "ECONNREFUSED", status |-> 0, data |-> NoData]
TimedOut(code) == [kind |-> "timeout", code |-> code, status |-> 0, data |-> NoData]
Responded(status, data) == [kind |-> "response", code |-> "", status |-> status, data |-> data]

JsError(name, code, message, hasResponse) ==
    [name |-> name, code |-> code, message |-> message, hasResponse |-> hasResponse]

NoError == JsError("", "", <<>>, FALSE)

\* new Error(message)
NewError(message) == JsError("Error", "", message, FALSE)

\* reading the variable model in the catch block: the const of the try
\* block is not in scope there
ModelNotDefined == JsError("ReferenceError", "", <<"model", " is not defined">>, FALSE)

\* validateStatus: status < 500
validateStatus(status) == status < 500

\* axios.post: rejected = TRUE with the error axios throws, else the
\* response
AxiosPost(wire) ==
    CASE wire.kind = "refused" ->
            [rejected |-> TRUE,
             error |-> JsError("AxiosError", "ECONNREFUSED",
                               <<"connect ECONNREFUSED ", "127.0.0.1:11434">>, FALSE)]
      [] wire.kind = "timeout" ->
            [rejected |-> TRUE,
             error |-> IF wire.code = "ECONNABORTED"
                       THEN JsError("AxiosError", "ECONNABORTED",
                                    <<"timeout", " of 60000ms exceeded">>, FALSE)
                       ELSE JsError("AxiosError", "ETIMEDOUT",
                                    <<"connect ETIMEDOUT ", "127.0.0.1:11434">>, FALSE)]
      [] OTHER ->
            IF validateStatus(wire.status)
            THEN [rejected |-> FALSE, error |-> NoError]
            ELSE [rejected |-> TRUE,
                  error |-> JsError("AxiosError", "ERR_BAD_RESPONSE",
                                    <<"Request failed with status code ",
                                      ToString(wire.status)>>, TRUE)]

\* error.message.includes('timeout')
IncludesTimeout(message) == \E i \in 1..Len(message) : message[i] = "timeout"

ClientReturned(responseText) == [raised |-> FALSE, error |-> NoError, value |-> responseText]
ClientRaised(error) == [raised |-> TRUE, error |-> error, value |-> <<>>]

\* the catch block of OllamaClient.call
CallCatch(error) ==
    IF error.code = "ECONNREFUSED"
    THEN ClientRaised(NewError(<<"Ollama service unavailable at ", BaseUrl,
                                 ". Please check if Ollama is running.">>))
    ELSE IF error.code = "ETIMEDOUT" \/ IncludesTimeout(error.message)
    THEN ClientRaised(ModelNotDefined)
    ELSE IF error.hasResponse
    THEN ClientRaised(ModelNotDefined)
    ELSE ClientRaised(error)

\* OllamaClient.call
OllamaCall(options, wire) ==
    LET Checked(data) ==
            IF ~data.present \/ data.response = <<>>
            THEN CallCatch(NewError(<<"Invalid response from Ollama API">>))
            ELSE ClientReturned(data.response)
        Answer(status, data) ==
            IF status >= 400
            THEN CallCatch(NewError(<<"Ollama API error: ", ToString(status), " - ">>
                                    \o (IF data.present /\ data.error # <<>>
                                        THEN data.error ELSE <<"Unknown error">>)))
            ELSE Checked(data)
        Posted(post) ==
            IF post.rejected THEN CallCatch(post.error)
            ELSE Answer(wire.status, wire.data)
    IN  Posted(AxiosPost(wire))

NoTransport == [kind |-> "none", code |-> "", status |-> 0, data |-> NoData]
NoRequest ==
    [model |-> "", useSegregationModel |-> FALSE, temperature |-> Omitted,
     max_tokens |-> Omitted, sent |-> "", body |-> NoRequestOptions]
NoOutcome == ClientReturned(<<>>)

-----------------------------------------------------------------------------
(* Inputs of the query expansion stage *)

\* a retry loop with one attempt more
MaxAttemptsPlusOne == 3 + 1

\* number of attempts of the retry loop
MaxAttempts == 3

Queries ==
    { <<>>,
      <<"yoga", " ">>,
      <<"Sales", " ", "tips">>,
      <<"PLANT", " ", "disease">>,
      <<"Marriage", " ", "proposal">>,
      <<"government">>,
      <<"health", " ", "business">> }

EntryNames == <<"1", "2", "3", "4", "5", "6", "7">>

\* a focus area as the prompt asks for it; odd entries pad their title with
\* blanks, even entries leave the optional category out
ValidEntryText(n) ==
    IF n % 2 = 1
    THEN ObjText(<<"title", "description", "expandedQuery", "category">>,
                 << <<QUOTE, " ", "T", EntryNames[n], " ", QUOTE>>,
                    <<QUOTE, "D", EntryNames[n], QUOTE>>,
                    <<QUOTE, "E", EntryNames[n], QUOTE>>,
                    StrText("problems") >>)
    ELSE ObjText(<<"title", "description", "expandedQuery">>,
                 << <<QUOTE, "T", EntryNames[n], QUOTE>>,
                    <<QUOTE, "D", EntryNames[n], QUOTE>>,
                    <<QUOTE, "E", EntryNames[n], QUOTE>> >>)

\* entries the validation step rejects
InvalidEntryTexts ==
    << ObjText(<<"title", "expandedQuery">>, <<StrText("T"), StrText("E")>>),
       ObjText(<<"title", "description", "expandedQuery">>,
               <<NumText(5), StrText("D"), StrText("E")>>),
       ObjText(<<"title", "description", "expandedQuery">>,
               <<StrText("T"), <<QUOTE, QUOTE>>, StrText("E")>>),
       <<"null">>,
       NumText(7) >>

\* a valid entry on which the oracle has set isFallback itself
FlaggedEntryText ==
    ObjText(<<"title", "description", "expandedQuery", "isFallback">>,
            <<StrText("T"), StrText("D"), StrText("E"), <<"true">>>>)

ValidEntries(n) == [i \in 1..n |-> ValidEntryText(i)]

Prose == <<"Here", " ", "are", " ", "the", " ", "results", "\n">>

ExpansionTexts ==
    { ArrText(ValidEntries(6)),
      ArrText(ValidEntries(7)),
      ArrText(ValidEntries(1)),
      ArrText(<<FlaggedEntryText>>),
      ArrText(<<InvalidEntryTexts[1], ValidEntryText(1), InvalidEntryTexts[2],
                InvalidEntryTexts[4], ValidEntryText(2)>>),
      ArrText(InvalidEntryTexts),
      ArrText(<<>>),
      Prose \o <<FENCEJSON, "\n">> \o ArrText(ValidEntries(6)) \o <<"\n", FENCE>>,
      ValidEntryText(1),
      ObjText(<<"focusAreas">>, <<ArrText(ValidEntries(2))>>),
      Prose,
      <<" ", "\n">>,
      <<FENCE>>,
      SubSeq(ArrText(ValidEntries(1)), 1, 8) }

ExpansionResponses == {Threw} \cup {Answered(t) : t \in ExpansionTexts}

-----------------------------------------------------------------------------
(* routes/payments.js: the webhook route of the payment provider.  A user  *)
(* is its id, the users table is the function from ids to                  *)
(* subscription_tier.  A property that is absent is the empty string.      *)

UserIds == {"u1", "u2"}
Tiers == {"free", "standard", "pro"}

\* the email column of the users table
EmailOf(user) == IF user = "u1" THEN "u1@mail" ELSE "u2@mail"

\* a metadata object; present = FALSE where the owner has no metadata at all
Metadata(user_id, plan_id) == [present |-> TRUE, user_id |-> user_id, plan_id |-> plan_id]
NoMetadata == [present |-> FALSE, user_id |-> "", plan_id |-> ""]

\* a tier choice that compares the plan with the configured plan id
\* PLAN_IDS.pro, which metadata.plan_id never holds
TierByPlanIds(planId) == IF planId = "pro_monthly" THEN "pro" ELSE "standard"

\* planId = metadata.plan_id || 'standard'; tier = planId === 'pro' ? 'pro' : 'standard'
Tier(planId) == IF planId = "pro" THEN "pro" ELSE "standard"

\* the calls a handler makes on the payment client and on the users table
Call(op, arg, tier) == [op |-> op, arg |-> arg, tier |-> tier]

\* what a handler leaves behind: the response status, its calls, the table
Handled(status, made, table) == [status |-> status, calls |-> made, users |-> table]

\* subscriptionData?.metadata || payload.data?.metadata || {}: the metadata
\* of the retrieved subscription or payment when it has one (an empty
\* object counts), else that of the payload
MetadataRead(req) ==
    IF req.retrieved = "other" THEN Metadata("u2", "pro")
    ELSE IF req.retrieved = "empty" THEN Metadata("", "")
    ELSE IF req.metadata.present THEN req.metadata
    ELSE Metadata("", "")

\* supabaseAdmin.from('users').update({subscription_tier: tier, ...}).eq('id', user)
\* followed by the response; throws = TRUE where the handler throws updateError
UpdateTier(table, made, req, user, tier, throws) ==
    IF req.updateFails
    THEN Handled(IF throws THEN 500 ELSE 200, Append(made, Call("update", user, tier)), table)
    ELSE Handled(200, Append(made, Call("update", user, tier)),
                 [table EXCEPT ![user] = tier])

\* the body shared by the three upgrading handlers: update by user_id, else
\* look the user up by email, else only respond
Upgrade(table, made, req) ==
    LET ByEmail(found) ==
            IF Cardinality(found) # 1
            THEN Handled(200, Append(made, Call("select", req.email, "")), table)
            ELSE UpdateTier(table, Append(made, Call("select", req.email, "")), req,
                            CHOOSE user \in found : TRUE,
                            Tier(MetadataRead(req).plan_id), TRUE)
    IN  IF MetadataRead(req).user_id # ""
        THEN UpdateTier(table, made, req, MetadataRead(req).user_id,
                        Tier(MetadataRead(req).plan_id), TRUE)
        ELSE IF req.email # ""
        THEN ByEmail({user \in UserIds : EmailOf(user) = req.email})
        ELSE Handled(200, made, table)

handleSubscriptionActivated(table, made, req) == Upgrade(table, made, req)
handleSubscriptionRenewed(table, made, req) == Upgrade(table, made, req)
handlePaymentSuccess(table, made, req) == Upgrade(table, made, req)

\* logs and responds
handlePaymentFailure(table, made, req) == Handled(200, made, table)

\* the update is awaited and its error is not looked at
handleSubscriptionCancellation(table, made, req) ==
    IF MetadataRead(req).user_id # ""
    THEN UpdateTier(table, made, req, MetadataRead(req).user_id, "free", FALSE)
    ELSE Handled(200, made, table)

handleSubscriptionHold(table, made, req) ==
    IF MetadataRead(req).user_id # ""
    THEN UpdateTier(table, made, req, MetadataRead(req).user_id, "free", FALSE)
    ELSE Handled(200, made, table)

handleTrialEvent(table, made, req) ==
    IF MetadataRead(req).user_id = "" THEN Handled(200, made, table)
    ELSE IF req.type = "subscription.trial_started"
    THEN UpdateTier(table, made, req, MetadataRead(req).user_id,
                    Tier(MetadataRead(req).plan_id), FALSE)
    ELSE IF req.type = "subscription.trial_ended"
    THEN UpdateTier(table, made, req, MetadataRead(req).user_id, "free", FALSE)
    ELSE Handled(200, made, table)

\* dodoClient.subscriptions.retrieve / payments.retrieve, called when the
\* payload names the subscription or payment
Retrieved(req, client) ==
    IF req.retrieved = "no_id" THEN <<>> ELSE <<Call(client, "id", "")>>

\* the route after the verification: the 400 for a payload without type,
\* then the two switches on payload.type by payload.data.payload_type
Dispatch(table, req) ==
    IF req.type = "" THEN Handled(400, <<>>, table)
    ELSE IF req.payload_type = "Subscription"
    THEN CASE req.type \in {"subscription.active", "subscription.activated"} ->
                  handleSubscriptionActivated(table, Retrieved(req, "subscriptions.retrieve"), req)
           [] req.type = "subscription.renewed" ->
                  handleSubscriptionRenewed(table, Retrieved(req, "subscriptions.retrieve"), req)
           [] req.type \in {"subscription.cancelled", "subscription.expired",
                            "subscription.paused"} ->
                  handleSubscriptionCancellation(table, Retrieved(req, "subscriptions.retrieve"), req)
           [] req.type \in {"subscription.on_hold", "subscription.suspended",
                            "subscription.failed"} ->
                  handleSubscriptionHold(table, Retrieved(req, "subscriptions.retrieve"), req)
           [] req.type \in {"subscription.trial_started", "subscription.trial_ended"} ->
                  handleTrialEvent(table, Retrieved(req, "subscriptions.retrieve"), req)
           [] OTHER -> Handled(200, Retrieved(req, "subscriptions.retrieve"), table)
    ELSE IF req.payload_type = "Payment"
    THEN CASE req.type = "payment.succeeded" ->
                  handlePaymentSuccess(table, Retrieved(req, "payments.retrieve"), req)
           [] req.type \in {"payment.failed", "payment.cancelled"} ->
                  handlePaymentFailure(table, Retrieved(req, "payments.retrieve"), req)
           [] OTHER -> Handled(200, Retrieved(req, "payments.retrieve"), table)
    ELSE Handled(200, <<>>, table)

\* a route that logs a failed verification and goes on
webhookRouteVerificationLogged(verifier, table, req) == Dispatch(table, req)

\* router.post('/webhook'): the 401 of a failed verification, else the dispatch
webhookRoute(verifier, table, req) ==
    IF verifier /\ ~req.valid THEN Handled(401, <<>>, table)
    ELSE Dispatch(table, req)

\* no request in flight
NoWebhookRequest ==
    [valid |-> FALSE, type |-> "", payload_type |-> "", metadata |-> NoMetadata,
     email |-> "", retrieved |-> "no_id", updateFails |-> FALSE]
NoWebhook == [request |-> NoWebhookRequest, status |-> 0, calls |-> <<>>]

PaymentsIdle ==
    /\ webhookVerifier = FALSE
    /\ users = [user \in UserIds |-> "free"]
    /\ webhook = NoWebhook

-----------------------------------------------------------------------------

(* State machine of generateQueryExpansion *)

PipelineIdle ==
    /\ operation = "none" /\ corpus = "plain" /\ posts = <<>>
    /\ relevantPosts = <<>> /\ batchLog = <<>> /\ stageLog = <<>>
    /\ result = NoResult

ExtractIdle == text = <<>> /\ payload = <<>> /\ extracted = NullResult
ClientIdle == request = NoRequest /\ transport = NoTransport /\ outcome = NoOutcome
ExpansionIdle ==
    /\ service = "QueryExpansionService" /\ query = <<>> /\ attempt = 1
    /\ attemptLog = <<>> /\ focusAreas = <<>>

InitExpansion ==
    /\ utilsCopy \in {1, 2}
    /\ service \in {"QueryExpansionService", "AIService"}
    /\ query \in Queries
    /\ pc = "expansion_attempt"
    /\ attempt = 1
    /\ attemptLog = <<>>
    /\ focusAreas = <<>>
    /\ calls = 0
    /\ ExtractIdle
    /\ PipelineIdle
    /\ ClientIdle
    /\ feedback = "unconfigured"
    /\ pauses = 0
    /\ PaymentsIdle

\* one pass of the retry loop: the oracle call and everything up to the
\* next call or the return
generateQueryExpansion ==
    /\ pc = "expansion_attempt"
    /\ \E response \in ExpansionResponses :
        \E tried \in {ExpansionAttempt(service, utilsCopy, query, response)} :
        /\ calls' = calls + 1
        /\ attemptLog' = Append(attemptLog, tried.outcome)
        /\ IF tried.outcome = "success"
           THEN /\ focusAreas' = tried.subtopics
                /\ pc' = "expansion_done"
                /\ attempt' = attempt
           ELSE IF attempt < MaxAttempts
           THEN /\ attempt' = attempt + 1
                /\ UNCHANGED <<focusAreas, pc>>
           ELSE /\ focusAreas' = ExpansionFallback(service, query)
                /\ pc' = "expansion_done"
                /\ attempt' = attempt
    /\ UNCHANGED <<utilsCopy, clientVars, feedback, pauses, paymentVars, service, query, extractVars, pipelineVars>>

NextExpansion == generateQueryExpansion

SpecExpansion == InitExpansion /\ [][NextExpansion]_vars

-----------------------------------------------------------------------------
(* State machine of one extractJSON call on a response that carries a     *)
(* valid JSON array or object                                              *)

\* elements per array and members per object in the generated payloads
MaxWidth == 2

Leaves == {NumText(1), StrText("a")}
MemberNames == <<"a", "b", "c">>

\* arrays and objects of at most MaxWidth values drawn from parts
ArraysOf(parts) ==
    UNION {{ArrText(elems) : elems \in [1..n -> parts]} : n \in 0..MaxWidth}
ObjectsOf(parts) ==
    UNION {{ObjText(SubSeq(MemberNames, 1, n), vals) : vals \in [1..n -> parts]} :
              n \in 0..MaxWidth}

\* flat arrays and objects, then arrays of objects, objects of arrays, ...
FlatPayloads == ArraysOf(Leaves) \cup ObjectsOf(Leaves)
Payloads == ArraysOf(Leaves \cup FlatPayloads) \cup ObjectsOf(Leaves \cup FlatPayloads)

\* the ways a response carries its JSON: bare, after prose, fenced, both
Wrappings == {"bare", "prose", "fenced", "prose_fenced"}
Wrap(wrapping, json) ==
    CASE wrapping = "bare" -> json
      [] wrapping = "prose" -> Prose \o json
      [] wrapping = "fenced" -> <<FENCEJSON, "\n">> \o json \o <<"\n", FENCE>>
      [] OTHER -> Prose \o <<FENCE, "\n">> \o json \o <<"\n", FENCE>>

InitExtract ==
    /\ utilsCopy \in {1, 2}
    /\ payload \in Payloads
    /\ \E wrapping \in Wrappings : text = Wrap(wrapping, payload)
    /\ extracted = NullResult
    /\ pc = "extract_call"
    /\ calls = 0
    /\ ExpansionIdle
    /\ PipelineIdle
    /\ ClientIdle
    /\ feedback = "unconfigured"
    /\ pauses = 0
    /\ PaymentsIdle

\* AIUtils.extractJSON(text)
ExtractJSON ==
    /\ pc = "extract_call"
    /\ extracted' = AIUtilsExtractJSON(utilsCopy, text)
    /\ pc' = "extract_done"
    /\ UNCHANGED <<utilsCopy, clientVars, feedback, pauses, paymentVars, text, payload, calls, expansionVars, pipelineVars>>

NextExtract == ExtractJSON

SpecExtract == InitExtract /\ [][NextExtract]_vars

\* C5: a response that is a valid JSON array or object, bare or after prose
\* or inside fences, is extracted as exactly that array or object text.
C5_ExtractReturnsWholeJSON ==
    pc = "extract_done" => (~extracted.null /\ extracted.text = payload)

-----------------------------------------------------------------------------
(* Inputs of the analysis pipeline *)

\* the largest number of indices in one generated response
MaxAsked == 16

\* input lists: the number of posts and what they contain
Scenarios ==
    { [n |-> 0, c |-> "plain"], [n |-> 1, c |-> "mixed"], [n |-> 3, c |-> "plain"],
      [n |-> 10, c |-> "mixed"], [n |-> 20, c |-> "mixed"], [n |-> 120, c |-> "mixed"] }

Operations == {"categorizePosts", "performFocusedAnalysis", "AIService.filterRelevantPosts"}

\* two JSON objects in one answer, the second being the intended one
TwoObjects(first, second) == first \o <<" ", "or", " ">> \o second

\* 1, 2, ..., n
FirstIndices(n) == [i \in 1..n |-> i]

\* an oracle either throws, or answers nothing, or answers a text
Responses(texts) == {Threw, Answered(<<>>)} \cup {Answered(t) : t \in texts}

\* answers to the relevance prompt for a batch of len posts
FilterTexts(len) ==
    { <<" ">>,
      Prose,
      RelevantText(<<>>),
      RelevantText(<<1, len>>),
      RelevantText(<<1, 0, len + 1>>),
      TwoObjects(RelevantText(<<1>>), RelevantText(<<len, 0, len + 1, 1>>)),
      TwoObjects(RelevantText(<<1>>), RelevantText(<<1, 1>>)) }

\* an answer that names the first and the last post of a batch by the
\* numbers the prompt of that batch shows
DisplayedIndices(len, offset) ==
    IF len = 1 THEN <<offset + 1>> ELSE <<offset + 1, offset + len>>

DisplayedAnswer(len, offset) ==
    TwoObjects(RelevantText(<<offset + 1>>), RelevantText(DisplayedIndices(len, offset)))

\* answers to the category prompt for len posts
FocusedTexts(len) ==
    { <<" ">>,
      Prose,
      RelevantText(<<>>),
      RelevantText(<<1, len>>),
      RelevantText(<<0, len + 1>>),
      TwoObjects(RelevantText(<<1>>), RelevantText(<<>>)),
      TwoObjects(RelevantText(<<1>>), RelevantText(<<len, 0, len + 1, 1>>)),
      TwoObjects(RelevantText(<<1>>),
                 RelevantText(FirstIndices(IF len < MaxAsked THEN len ELSE MaxAsked))) }

\* answers to the sentiment prompt for len posts
SentimentTexts(len) ==
    { <<" ">>,
      Prose,
      CategorizationText(<<1, 2>>, <<>>, <<3>>),
      CategorizationText(<<>>, <<>>, <<>>),
      CategorizationText(<<1, 0>>, <<len + 1>>, <<len>>),
      TwoObjects(RelevantText(<<1>>), CategorizationText(<<1, 2>>, <<>>, <<3>>)),
      TwoObjects(RelevantText(<<1>>), CategorizationText(<<>>, <<>>, <<>>)),
      TwoObjects(RelevantText(<<1>>), CategorizationText(<<len, 0>>, <<len + 1, 1>>, <<2>>)) }

-----------------------------------------------------------------------------
(* State machine of the analysis pipeline: AnalysisService.categorizePosts *)
(* and performFocusedAnalysis over RelevanceFilterService and              *)
(* SegregationService, and the legacy AIService.filterRelevantPosts.  An   *)
(* action is the code between two oracle calls.                            *)

Init ==
    /\ operation \in Operations
    /\ utilsCopy \in (IF operation = "AIService.filterRelevantPosts" THEN {1} ELSE {1, 2})
    /\ \E scenario \in Scenarios :
        /\ posts = PostList(scenario.n)
        /\ corpus = scenario.c
    /\ pc = "called"
    /\ relevantPosts = <<>>
    /\ batchLog = <<>>
    /\ stageLog = <<>>
    /\ result = NoResult
    /\ calls = 0
    /\ ExtractIdle
    /\ ExpansionIdle
    /\ ClientIdle
    /\ feedback = "unconfigured"
    /\ pauses = 0
    /\ PaymentsIdle

\* categorizePosts up to its first oracle call
categorizePosts ==
    /\ pc = "called"
    /\ operation = "categorizePosts"
    /\ IF posts = <<>>
       THEN /\ result' = Returned("categories", <<>>, NoCategories, 0, 0, FALSE)
            /\ pc' = "done"
       ELSE /\ pc' = "filter_batch"
            /\ UNCHANGED result
    /\ UNCHANGED <<utilsCopy, clientVars, feedback, pauses, paymentVars, calls, extractVars, expansionVars, operation, corpus,
                   posts, relevantPosts, batchLog, stageLog>>

\* performFocusedAnalysis up to its first oracle call
performFocusedAnalysis ==
    /\ pc = "called"
    /\ operation = "performFocusedAnalysis"
    /\ IF posts = <<>>
       THEN /\ result' = Returned("focused", <<>>, NoCategories, 0, 0, FALSE)
            /\ pc' = "done"
       ELSE /\ pc' = "filter_batch"
            /\ UNCHANGED result
    /\ UNCHANGED <<utilsCopy, clientVars, feedback, pauses, paymentVars, calls, extractVars, expansionVars, operation, corpus,
                   posts, relevantPosts, batchLog, stageLog>>

\* the legacy filterRelevantPosts up to its first oracle call: the loop
\* body never runs on an empty list
LegacyFilterRelevantPosts ==
    /\ pc = "called"
    /\ operation = "AIService.filterRelevantPosts"
    /\ IF posts = <<>>
       THEN /\ result' = Returned("filtered", <<>>, NoCategories, 0, 0, FALSE)
            /\ pc' = "done"
       ELSE /\ pc' = "filter_batch"
            /\ UNCHANGED result
    /\ UNCHANGED <<utilsCopy, clientVars, feedback, pauses, paymentVars, calls, extractVars, expansionVars, operation, corpus,
                   posts, relevantPosts, batchLog, stageLog>>

BatchEntry(offset, batch, response, run) ==
    [offset |-> offset, input |-> batch, response |-> response,
     failed |-> run.failed, why |-> run.why, output |-> run.output]

\* a caller that goes on to its categorization stage whatever the filter
\* returned
AfterFilterAlwaysCategorizes(relevant) ==
    /\ pc' = (IF operation = "categorizePosts" THEN "sentiment"
              ELSE IF operation = "performFocusedAnalysis" THEN "focused" ELSE "done")
    /\ result' = (IF pc' = "done"
                  THEN Returned("filtered", relevant, NoCategories, Len(relevant),
                                Len(posts), FALSE)
                  ELSE result)

\* what the caller of filterRelevantPosts does with the filtered list, up to
\* its next oracle call
AfterFilter(relevant) ==
    CASE operation = "categorizePosts" ->
            IF relevant = <<>>
            THEN /\ result' = Returned("categories", <<>>, NoCategories, 0, Len(posts), FALSE)
                 /\ pc' = "done"
            ELSE /\ pc' = "sentiment"
                 /\ UNCHANGED result
      [] operation = "performFocusedAnalysis" ->
            IF relevant = <<>>
            THEN /\ result' = Returned("focused", <<>>, NoCategories, 0, Len(posts), FALSE)
                 /\ pc' = "done"
            ELSE /\ pc' = "focused"
                 /\ UNCHANGED result
      [] OTHER ->
            /\ result' = Returned("filtered", relevant, NoCategories, Len(relevant),
                                  Len(posts), FALSE)
            /\ pc' = "done"

\* a loop that waits after every batch, the last one included
PauseAfterEvery(i, total) == total >= 0

\* the pause condition at the foot of the loop body
PauseAfter(i, total) == i + BatchSize < total

\* one pass of the loop of filterRelevantPosts: the batch at offset
\* i = BatchSize * (batches done), its oracle call, and the push of the
\* batch result; the pass ends at the timer when another batch follows
filterRelevantPosts ==
    /\ pc = "filter_batch"
    /\ \E response \in Responses(FilterTexts(Len(BatchAt(posts, BatchSize * Len(batchLog))))
                                   \cup {DisplayedAnswer(
                                             Len(BatchAt(posts, BatchSize * Len(batchLog))),
                                             BatchSize * Len(batchLog))}) :
       \E run \in {IF operation = "AIService.filterRelevantPosts"
                   THEN LegacyFilterBatchRelevance(
                            BatchAt(posts, BatchSize * Len(batchLog)), response)
                   ELSE filterBatchRelevance(
                            utilsCopy, BatchAt(posts, BatchSize * Len(batchLog)), response)} :
        /\ batchLog' = Append(batchLog,
                              BatchEntry(BatchSize * Len(batchLog),
                                         BatchAt(posts, BatchSize * Len(batchLog)),
                                         response, run))
        /\ relevantPosts' = relevantPosts \o run.output
        /\ calls' = calls + 1
        /\ IF PauseAfter(BatchSize * Len(batchLog), Len(posts))
           THEN /\ pc' = "filter_pause"
                /\ UNCHANGED result
           ELSE AfterFilter(relevantPosts \o run.output)
    /\ UNCHANGED <<utilsCopy, clientVars, feedback, pauses, paymentVars, extractVars, expansionVars, operation, corpus, posts, stageLog>>

\* the awaited setTimeout between two batches: the next pass starts when
\* the timer has fired
FilterPause ==
    /\ pc = "filter_pause"
    /\ pauses' = pauses + 1
    /\ pc' = "filter_batch"
    /\ UNCHANGED <<utilsCopy, clientVars, feedback, paymentVars, calls, extractVars, expansionVars,
                   pipelineVars>>

StageEntry(stage, input, response, run, flat) ==
    [stage |-> stage, input |-> input, response |-> response, failed |-> run.failed,
     why |-> run.why, before |-> run.before, output |-> run.output, flat |-> flat]

\* the body of the try of categorizePosts after the filter, and its catch:
\* aiSentimentAnalysis on the relevant posts, enhancedSentimentAnalysis on
\* the posts the entry point was given when that throws
SentimentStage ==
    /\ pc = "sentiment"
    /\ \E fallback \in {enhancedSentimentAnalysis(corpus, posts)} :
       \E response \in Responses(SentimentTexts(Len(relevantPosts))) :
       \E run \in {aiSentimentAnalysis(utilsCopy, relevantPosts, response)} :
        IF run.failed
        THEN    /\ stageLog' = <<StageEntry("aiSentimentAnalysis", relevantPosts,
                                            response, run, <<>>),
                                 StageEntry("enhancedSentimentAnalysis", posts,
                                            response, fallback, <<>>)>>
                /\ result' = Returned("categories", <<>>, fallback.output,
                                      Len(posts), Len(posts), FALSE)
        ELSE /\ stageLog' = <<StageEntry("aiSentimentAnalysis", relevantPosts,
                                         response, run, <<>>)>>
             /\ result' = Returned("categories", <<>>, run.output,
                                   Len(relevantPosts), Len(posts), FALSE)
    /\ pc' = "done"
    /\ calls' = calls + 1
    /\ UNCHANGED <<utilsCopy, clientVars, feedback, pauses, paymentVars, extractVars, expansionVars, operation, corpus, posts,
                   relevantPosts, batchLog>>

\* the rest of performFocusedAnalysis: performCategorySpecificAnalysis and
\* the wrapping of what it returned
FocusedStage ==
    /\ pc = "focused"
    /\ \E response \in Responses(FocusedTexts(Len(relevantPosts))) :
       \E run \in {performCategorySpecificAnalysis(utilsCopy, relevantPosts, response)} :
        /\ stageLog' = <<[stage |-> "performCategorySpecificAnalysis",
                          input |-> relevantPosts, response |-> response,
                          failed |-> run.failed, why |-> run.why,
                          before |-> NoCategories, output |-> NoCategories,
                          flat |-> run.output, returned |-> run]>>
        /\ result' = Returned("focused", run.output, NoCategories, Len(relevantPosts),
                              Len(posts), run.why = "noRelevantContent")
    /\ pc' = "done"
    /\ calls' = calls + 1
    /\ UNCHANGED <<utilsCopy, clientVars, feedback, pauses, paymentVars, extractVars, expansionVars, operation, corpus, posts,
                   relevantPosts, batchLog>>

Next ==
    \/ categorizePosts
    \/ performFocusedAnalysis
    \/ LegacyFilterRelevantPosts
    \/ filterRelevantPosts
    \/ FilterPause
    \/ SentimentStage
    \/ FocusedStage

Spec == Init /\ [][Next]_vars

-----------------------------------------------------------------------------
(* extractJSON on responses whose JSON is off by one bracket               *)

\* JSON texts to damage: flat arrays and objects, one level of nesting, and
\* strings that hold a bracket character
DamagedPayloads ==
    FlatPayloads
    \cup { ArrText(<<ObjText(<<"a">>, <<NumText(1)>>)>>),
           ObjText(<<"a">>, <<ArrText(<<NumText(1)>>)>>),
           ArrText(<<NumText(1), <<QUOTE, "a", "]", QUOTE>>>>),
           ObjText(<<"a">>, <<<<QUOTE, "}", QUOTE>>>>) }

\* one bracket too many at the end, one too few at the end, one too many
\* at the start
Damages == {"extra_close_array", "extra_close_object", "missing_close", "extra_open"}
Damage(damage, json) ==
    CASE damage = "extra_close_array" -> json \o <<"]">>
      [] damage = "extra_close_object" -> json \o <<"}">>
      [] damage = "missing_close" -> SubSeq(json, 1, Len(json) - 1)
      [] OTHER -> <<json[1]>> \o json

InitUnbalanced ==
    /\ utilsCopy \in {1, 2}
    /\ payload \in DamagedPayloads
    /\ \E wrapping \in {"bare", "fenced"} :
       \E damage \in Damages : text = Wrap(wrapping, Damage(damage, payload))
    /\ extracted = NullResult
    /\ pc = "extract_call"
    /\ calls = 0
    /\ ExpansionIdle
    /\ PipelineIdle
    /\ ClientIdle
    /\ feedback = "unconfigured"
    /\ pauses = 0
    /\ PaymentsIdle

SpecUnbalanced == InitUnbalanced /\ [][NextExtract]_vars

-----------------------------------------------------------------------------
(* extractJSON on responses that were cut off or hold no JSON at all:      *)
(* nothing, white space, fences around nothing, prose, and every prefix of *)
(* a JSON text, bare or wrapped.                                           *)

\* responses without any content
BlankTexts == {<<>>, <<" ">>, <<"\n", " ">>}

\* a JSON text cut after any number of its characters
Prefixes(json) == {SubSeq(json, 1, end) : end \in 0..Len(json)}

InitTruncated ==
    /\ utilsCopy \in {1, 2}
    /\ payload \in DamagedPayloads
    /\ \/ text \in BlankTexts
       \/ \E wrapping \in Wrappings :
          \E cut \in Prefixes(payload) : text = Wrap(wrapping, cut)
    /\ extracted = NullResult
    /\ pc = "extract_call"
    /\ calls = 0
    /\ ExpansionIdle
    /\ PipelineIdle
    /\ ClientIdle
    /\ feedback = "unconfigured"
    /\ pauses = 0
    /\ PaymentsIdle

SpecTruncated == InitTruncated /\ [][NextExtract]_vars

-----------------------------------------------------------------------------
(* The rebalancer on its own: ensureAllCategoriesHaveResults applied to a  *)
(* categorization of a post list, and applied again to what it returned.   *)

\* the posts lists of the rebalancer's callers, by length
RebalanceSizes == {0, 1, 3, 20, 30}

\* lists a category can hold: nothing, single posts, runs of posts
CategoryLists(postList) ==
    { <<>>,
      Slice(postList, 1),
      Slice(postList, 2),
      Slice(postList, 4),
      IF Len(postList) < 4 THEN <<>> ELSE SubSeq(postList, 2, 4),
      IF postList = <<>> THEN <<>> ELSE <<postList[Len(postList)]>> }

InitRebalance ==
    /\ operation = "ensureAllCategoriesHaveResults"
    /\ utilsCopy = 1
    /\ \E n \in RebalanceSizes :
        /\ posts = PostList(n)
        /\ \E pain \in CategoryLists(PostList(n)) :
           \E trending \in CategoryLists(PostList(n)) :
           \E content \in CategoryLists(PostList(n)) :
              result = Returned("categories", <<>>, Categories(pain, trending, content),
                                n, n, FALSE)
    /\ corpus = "plain"
    /\ pc = "rebalance"
    /\ relevantPosts = <<>>
    /\ batchLog = <<>>
    /\ stageLog = <<>>
    /\ calls = 0
    /\ ExtractIdle
    /\ ExpansionIdle
    /\ ClientIdle
    /\ feedback = "unconfigured"
    /\ pauses = 0
    /\ PaymentsIdle

\* one call of ensureAllCategoriesHaveResults(result, allPosts) on the
\* categories held in result
Rebalance ==
    /\ pc \in {"rebalance", "rebalanced_once"}
    /\ \E rebalanced \in {ensureAllCategoriesHaveResults(
                             Categories(result.painPoints, result.trendingIdeas,
                                        result.contentIdeas), posts)} :
        /\ stageLog' = Append(stageLog,
                              [stage |-> "ensureAllCategoriesHaveResults",
                               input |-> posts,
                               before |-> Categories(result.painPoints,
                                                     result.trendingIdeas,
                                                     result.contentIdeas),
                               output |-> rebalanced])
        /\ result' = Returned("categories", <<>>, rebalanced, result.relevantCount,
                              result.totalPosts, FALSE)
    /\ pc' = IF pc = "rebalance" THEN "rebalanced_once" ELSE "rebalanced_twice"
    /\ UNCHANGED <<utilsCopy, clientVars, feedback, pauses, paymentVars, calls, extractVars, expansionVars, operation, corpus,
                   posts, relevantPosts, batchLog>>

NextRebalance == Rebalance

SpecRebalance == InitRebalance /\ [][NextRebalance]_vars

-----------------------------------------------------------------------------
(* The entry points under fair scheduling: every awaited oracle call       *)
(* settles, so a call that can take its next step does take it.            *)

\* the query does not steer the retry loop: two queries stand for all
LiveQueries == {<<"yoga", " ">>, <<"Sales", " ", "tips">>}

\* the batch loop is that of filterRelevantPosts, which both entry points
\* call: the input of several batches runs through performFocusedAnalysis
\* with the second copy of the extractor
InitLive ==
    \/ Init /\ (Len(posts) > BatchSize
                    => utilsCopy = 2 /\ operation = "performFocusedAnalysis")
    \/ InitExpansion /\ query \in LiveQueries

NextLive == Next \/ NextExpansion

SpecLive == InitLive /\ [][NextLive]_vars /\ WF_vars(NextLive)

-----------------------------------------------------------------------------
(* One attempt of generateQueryExpansion on an answer that is a JSON array *)
(* of one to seven entries, any of them valid or not                       *)

\* the arrays of n entries in which the entries at the positions invalidAt
\* fail the validation
PaddingTexts ==
    UNION { { ArrText([i \in 1..n |->
                          IF i \in invalidAt
                          THEN InvalidEntryTexts[(i % Len(InvalidEntryTexts)) + 1]
                          ELSE ValidEntryText(i)]) : invalidAt \in SUBSET (1..n) } :
            n \in 1..Len(EntryNames) }

InitPadding ==
    /\ utilsCopy \in {1, 2}
    /\ service \in {"QueryExpansionService", "AIService"}
    /\ query \in LiveQueries
    /\ text \in PaddingTexts
    /\ payload = <<>>
    /\ extracted = NullResult
    /\ pc = "attempt_call"
    /\ attempt = 1
    /\ attemptLog = <<>>
    /\ focusAreas = <<>>
    /\ calls = 0
    /\ PipelineIdle
    /\ ClientIdle
    /\ feedback = "unconfigured"
    /\ pauses = 0
    /\ PaymentsIdle

\* the body of the retry loop on the answer held in text, up to its return
\* or its catch
GenerateQueryExpansionAttempt ==
    /\ pc = "attempt_call"
    /\ \E tried \in {ExpansionAttempt(service, utilsCopy, query, Answered(text))} :
        /\ attemptLog' = <<tried.outcome>>
        /\ focusAreas' = tried.subtopics
    /\ calls' = calls + 1
    /\ pc' = "attempt_done"
    /\ UNCHANGED <<utilsCopy, clientVars, feedback, pauses, paymentVars, service, query, attempt,
                   extractVars, pipelineVars>>

NextPadding == GenerateQueryExpansionAttempt

SpecPadding == InitPadding /\ [][NextPadding]_vars

-----------------------------------------------------------------------------
(* OllamaClient.call on its own: the options and what the request meets    *)

\* temperatures 0, 0.1, 0.7 and 1, token budgets 500 and 2000
ClientOptions ==
    { [model |-> name, useSegregationModel |-> flag, temperature |-> temperature,
       max_tokens |-> budget, sent |-> "", body |-> NoRequestOptions] :
          name \in {"", "llama3"}, flag \in BOOLEAN,
          temperature \in {Omitted, Given(0), Given(1), Given(7), Given(10)},
          budget \in {Omitted, Given(500), Given(2000)} }

Statuses == {200, 201, 400, 404, 429, 500, 503}

Bodies ==
    { NoData,
      Data(<<>>, <<>>),
      Data(<<"[", "1", "]">>, <<>>),
      Data(<<>>, <<"model 'gpt2' not found">>),
      Data(<<>>, <<"upstream request ", "timeout">>) }

Transports ==
    {Refused, TimedOut("ECONNABORTED"), TimedOut("ETIMEDOUT")}
        \cup {Responded(status, data) : status \in Statuses, data \in Bodies}

InitClient ==
    /\ utilsCopy = 1
    /\ pc = "client_call"
    /\ calls = 0
    /\ request \in ClientOptions
    /\ transport \in Transports
    /\ outcome = NoOutcome
    /\ ExtractIdle
    /\ ExpansionIdle
    /\ PipelineIdle
    /\ feedback = "unconfigured"
    /\ pauses = 0
    /\ PaymentsIdle

\* a client that posts the request a second time when the first one failed
OllamaClientCallRetrying ==
    /\ pc = "client_call"
    /\ request' = [request EXCEPT !.sent = ModelOf(request),
                                  !.body = RequestOptions(request)]
    /\ outcome' = OllamaCall(request, transport)
    /\ calls' = calls + (IF OllamaCall(request, transport).raised THEN 2 ELSE 1)
    /\ pc' = "client_done"
    /\ UNCHANGED <<utilsCopy, feedback, pauses, paymentVars, transport, extractVars, expansionVars, pipelineVars>>

\* one call of OllamaClient.call, from the request to the return or throw:
\* the body holds one axios.post and no loop, the catch only throws
OllamaClientCall ==
    /\ pc = "client_call"
    /\ request' = [request EXCEPT !.sent = ModelOf(request),
                                  !.body = RequestOptions(request)]
    /\ outcome' = OllamaCall(request, transport)
    /\ calls' = calls + 1
    /\ pc' = "client_done"
    /\ UNCHANGED <<utilsCopy, feedback, pauses, paymentVars, transport, extractVars, expansionVars, pipelineVars>>

NextClient == OllamaClientCall

SpecClient == InitClient /\ [][NextClient]_vars

-----------------------------------------------------------------------------
(* filterBatchRelevance on its own, with the feedback it reads             *)

BatchSizes == {1, 3, 20}
BatchOffsets == {0, 50}

\* outcomes of the oracle call of generateSemanticContext
GlossResponses == {Threw, Answered(<<>>), Answered(<<"Consumer context: ", "wellness">>)}

InitFeedback ==
    /\ utilsCopy \in {1, 2}
    /\ feedback \in Feedbacks
    /\ operation = "filterBatchRelevance"
    /\ corpus = "plain"
    /\ \E n \in BatchSizes : posts = PostList(n)
    /\ pc = "batch_call"
    /\ relevantPosts = <<>>
    /\ batchLog = <<>>
    /\ stageLog = <<>>
    /\ result = NoResult
    /\ calls = 0
    /\ ExtractIdle
    /\ service = "QueryExpansionService"
    /\ query \in LiveQueries
    /\ attempt = 1
    /\ attemptLog = <<>>
    /\ focusAreas = <<>>
    /\ ClientIdle
    /\ pauses = 0
    /\ PaymentsIdle

\* one call of filterBatchRelevance(posts, query, offset): the two reads
\* of Promise.all, of which a rejection goes to the catch, then the prompt,
\* the relevance call and the index mapping; calls counts the relevance
\* call
FilterBatchRelevance ==
    /\ pc = "batch_call"
    /\ \E offset \in BatchOffsets :
       \E glossResponse \in GlossResponses :
       \E response \in Responses(FilterTexts(Len(posts))) :
       \E semantic \in {generateSemanticContext(query, glossResponse)} :
       \E fed \in {FilterBatchWithFeedback(utilsCopy, posts, offset, feedback, response)} :
       \E run \in {IF semantic.threw THEN StageFailed("gloss_error", posts) ELSE fed.run} :
        /\ batchLog' = <<[offset |-> offset, input |-> posts, response |-> response,
                          failed |-> run.failed, why |-> run.why,
                          output |-> run.output, prompt |-> fed.prompt,
                          gloss |-> glossResponse, semanticContext |-> semantic.text]>>
        /\ relevantPosts' = run.output
        /\ result' = Returned("filtered", run.output, NoCategories,
                              Len(run.output), Len(posts), FALSE)
        /\ calls' = calls + (IF semantic.threw THEN 0 ELSE 1)
    /\ pc' = "batch_done"
    /\ UNCHANGED <<utilsCopy, clientVars, feedback, pauses, paymentVars, extractVars, expansionVars, operation,
                   corpus, posts, stageLog>>

NextFeedback == FilterBatchRelevance

SpecFeedback == InitFeedback /\ [][NextFeedback]_vars

-----------------------------------------------------------------------------
(* The classifiers that need no oracle, called on a list the caller keeps: *)
(* posts is the caller's array, before and after the call                  *)

MaxListLen == 20

InitCallerList ==
    /\ utilsCopy = 1
    /\ operation \in {"fallbackCategoryAnalysis", "enhancedSentimentAnalysis"}
    /\ corpus \in {"plain", "mixed", "ties", "skewed"}
    /\ \E n \in 0..MaxListLen : posts = PostList(n)
    /\ pc = "classifier_call"
    /\ relevantPosts = <<>>
    /\ batchLog = <<>>
    /\ stageLog = <<>>
    /\ result = NoResult
    /\ calls = 0
    /\ ExtractIdle
    /\ ExpansionIdle
    /\ ClientIdle
    /\ feedback = "unconfigured"
    /\ pauses = 0
    /\ PaymentsIdle

\* fallbackCategoryAnalysis(posts, category) on the caller's list
FallbackCategoryAnalysis ==
    /\ pc = "classifier_call"
    /\ operation = "fallbackCategoryAnalysis"
    /\ \E run \in {fallbackCategoryAnalysis(corpus, posts)} :
        /\ posts' = run.sorted
        /\ stageLog' = <<[stage |-> "fallbackCategoryAnalysis", input |-> posts,
                          flat |-> run.output, output |-> NoCategories]>>
        /\ result' = Returned("fallback", run.output, NoCategories, Len(run.output),
                              Len(posts), FALSE)
    /\ pc' = "classifier_done"
    /\ UNCHANGED <<utilsCopy, clientVars, feedback, pauses, paymentVars, calls, extractVars, expansionVars,
                   operation, corpus, relevantPosts, batchLog>>

\* enhancedSentimentAnalysis(posts, query) on the caller's list
EnhancedSentimentAnalysis ==
    /\ pc = "classifier_call"
    /\ operation = "enhancedSentimentAnalysis"
    /\ \E run \in {enhancedSentimentAnalysis(corpus, posts)} :
        /\ stageLog' = <<[stage |-> "enhancedSentimentAnalysis", input |-> posts,
                          flat |-> <<>>, before |-> run.before, output |-> run.output]>>
        /\ result' = Returned("categories", <<>>, run.output, Len(posts), Len(posts), FALSE)
    /\ pc' = "classifier_done"
    /\ UNCHANGED <<utilsCopy, clientVars, feedback, pauses, paymentVars, calls, extractVars, expansionVars,
                   operation, corpus, posts, relevantPosts, batchLog>>

NextCallerList == FallbackCategoryAnalysis \/ EnhancedSentimentAnalysis

SpecCallerList == InitCallerList /\ [][NextCallerList]_vars

-----------------------------------------------------------------------------
(* The webhook route: requests arrive one after the other, each is handled *)
(* to its response by one run of the route, and the users table lasts.     *)

EventTypes ==
    {"subscription.active", "subscription.activated", "subscription.renewed",
     "subscription.cancelled", "subscription.expired", "subscription.paused",
     "subscription.on_hold", "subscription.suspended", "subscription.failed",
     "subscription.trial_started", "subscription.trial_ended",
     "subscription.plan_changed",
     "payment.succeeded", "payment.failed", "payment.cancelled", "payment.processing"}

\* the requests a client can post: signed rightly or not, a payload with or
\* without type and payload_type, with or without metadata and customer
\* email, and what the retrieval of the named subscription or payment gives:
\* nothing to retrieve, an error, the metadata of the payload, an empty
\* metadata object, or metadata written since for another user and plan
WebhookRequests ==
    [valid : BOOLEAN,
     type : EventTypes \cup {""},
     payload_type : {"Subscription", "Payment", ""},
     metadata : {NoMetadata, Metadata("u1", "pro"), Metadata("u1", "standard"),
                 Metadata("u1", ""), Metadata("", "pro")},
     email : {"", "u2@mail", "nobody@mail"},
     retrieved : {"no_id", "fails", "same", "empty", "other"},
     updateFails : BOOLEAN]

InitWebhook ==
    /\ webhookVerifier \in BOOLEAN
    /\ users = [user \in UserIds |-> "free"]
    /\ webhook = NoWebhook
    /\ pc = "webhook_listen"
    /\ utilsCopy = 1
    /\ calls = 0
    /\ ExtractIdle
    /\ ExpansionIdle
    /\ PipelineIdle
    /\ ClientIdle
    /\ feedback = "unconfigured"
    /\ pauses = 0

\* a POST /webhook request reaches the route
WebhookPosted ==
    /\ pc = "webhook_listen"
    /\ \E req \in WebhookRequests :
          webhook' = [request |-> req, status |-> 0, calls |-> <<>>]
    /\ pc' = "webhook_received"
    /\ UNCHANGED <<utilsCopy, clientVars, feedback, pauses, webhookVerifier, users, calls,
                   extractVars, expansionVars, pipelineVars>>

\* router.post('/webhook', ...): the whole run of the route on the request
PostWebhook ==
    /\ pc = "webhook_received"
    /\ \E handled \in {webhookRoute(webhookVerifier, users, webhook.request)} :
        /\ users' = handled.users
        /\ webhook' = [request |-> NoWebhookRequest, status |-> handled.status,
                       calls |-> handled.calls]
    /\ pc' = "webhook_responded"
    /\ UNCHANGED <<utilsCopy, clientVars, feedback, pauses, webhookVerifier, calls,
                   extractVars, expansionVars, pipelineVars>>

\* the response has left; the route waits for the next request
WebhookResponseSent ==
    /\ pc = "webhook_responded"
    /\ webhook' = NoWebhook
    /\ pc' = "webhook_listen"
    /\ UNCHANGED <<utilsCopy, clientVars, feedback, pauses, webhookVerifier, users, calls,
                   extractVars, expansionVars, pipelineVars>>

NextWebhook == WebhookPosted \/ PostWebhook \/ WebhookResponseSent

SpecWebhook == InitWebhook /\ [][NextWebhook]_vars

-----------------------------------------------------------------------------

(* Properties of query expansion *)

ExpansionReturned == pc = "expansion_done"

\* every attempt of the retry loop ended in one of its failure branches
AllAttemptsFailed ==
    /\ ExpansionReturned
    /\ Len(attemptLog) = MaxAttempts
    /\ \A i \in 1..Len(attemptLog) : attemptLog[i] # "success"

\* C1: whatever the oracle did on each attempt, the list returned by
\* QueryExpansionService.generateQueryExpansion has exactly 7 entries and its
\* last entry is the custom option: category "custom", isCustom set, and
\* expandedQuery equal to the query as it was passed in.
C1_SevenEntriesCustomLast ==
    (ExpansionReturned /\ service = "QueryExpansionService") =>
        /\ Len(focusAreas) = 7
        /\ focusAreas[7].category = JStr(<<"custom">>)
        /\ focusAreas[7].isCustom
        /\ focusAreas[7].expandedQuery = query

\* a return on the third attempt, after a thrown call and a malformed text,
\* for a query that ends in a blank
C1_Witness ==
    /\ ExpansionReturned
    /\ service = "QueryExpansionService"
    /\ attemptLog = <<"call_error", "parse_error", "success">>
    /\ query = <<"yoga", " ">>
    /\ Len(focusAreas) = 7

\* the words that select a 6-entry template in the legacy fallback
LegacySixTemplateWords == {"marriage", "proposal", "government", "political", "politics"}
LegacyFiveTemplateWords == {"sales", "marketing", "business", "plant", "disease"}

\* the number of entries the fallback of a service returns for a query: the
\* modular service has 6 template entries everywhere, the legacy service has
\* 6 only in its marriage and government templates and 5 elsewhere; the
\* custom option is counted on top
FallbackCount(svc, q) ==
    IF svc = "QueryExpansionService" THEN 7
    ELSE IF \E i \in 1..Len(q) : LowerTok(q[i]) \in LegacyFiveTemplateWords THEN 6
    ELSE IF \E i \in 1..Len(q) : LowerTok(q[i]) \in LegacySixTemplateWords THEN 7
    ELSE 6

\* C2: when all 3 attempts end in a failure branch (thrown call, empty text,
\* no JSON, unparseable text, non-array, empty array, no valid entry), every
\* returned entry, the custom option included, has isFallback set, and the
\* list has the 6 or 7 entries of the template the query selects.
C2_AllFailedGivesFlaggedFallback ==
    AllAttemptsFailed =>
        /\ \A i \in 1..Len(focusAreas) : focusAreas[i].isFallback
        /\ Len(focusAreas) \in {6, 7}
        /\ Len(focusAreas) = FallbackCount(service, query)
        /\ focusAreas[Len(focusAreas)].isCustom

\* three different failures in a row in the legacy service, whose generic
\* template gives 6 entries
C2_Witness ==
    /\ AllAttemptsFailed
    /\ service = "AIService"
    /\ attemptLog = <<"call_error", "not_array", "no_valid">>
    /\ Len(focusAreas) = 6
    /\ focusAreas[6].isFallback

-----------------------------------------------------------------------------
(* Properties of the analysis pipeline *)

Elements(list) == {list[i] : i \in 1..Len(list)}

ModularPipeline == operation \in {"categorizePosts", "performFocusedAnalysis"}

FilterFinished == pc \in {"sentiment", "focused", "done"}

\* the text is a JSON object, all of it, as the prompts ask for
IsObjectText(responseText) ==
    JSONparse(responseText).ok /\ JSONparse(responseText).v.t = "object"

\* the indices a JSON object text lists under key
AskedIndices(responseText, key) ==
    IF IsObjectText(responseText)
          /\ IsArray(GetProperty(JSONparse(responseText).v, key))
    THEN GetProperty(JSONparse(responseText).v, key).e
    ELSE <<>>

\* the response of the entry is {"relevant":[...]} and nothing else
AnsweredRelevant(entry) ==
    /\ ~entry.response.threw
    /\ IsObjectText(entry.response.text)
    /\ IsArray(GetProperty(JSONparse(entry.response.text).v, <<"relevant">>))

\* the posts of the input that the indices of such a response name
OracleSelected(entry) ==
    IndexChain(entry.input, AskedIndices(entry.response.text, <<"relevant">>))

HasOutOfRange(postList, indices) ==
    \E j \in 1..Len(indices) : ~InRange(postList, indices[j])

\* C3: after ensureAllCategoriesHaveResults on a non-empty list of posts,
\* whatever the categorization was, the three categories are non-empty.
C3_AllCategoriesNonEmpty ==
    \A j \in 1..Len(stageLog) :
        (/\ stageLog[j].stage \in {"aiSentimentAnalysis", "enhancedSentimentAnalysis"}
         /\ ~stageLog[j].failed
         /\ stageLog[j].input # <<>>)
        => (/\ stageLog[j].output.painPoints # <<>>
            /\ stageLog[j].output.trendingIdeas # <<>>
            /\ stageLog[j].output.contentIdeas # <<>>)

\* C4: for 10 posts and the answer
\* {"painPoints":[1,2],"trendingIdeas":[],"contentIdeas":[3]} the categorizer
\* returns posts 1 and 2 as pain points, post 3 as content idea and exactly
\* one borrowed post as trending idea.
C4_CategorizationScenario ==
    \A j \in 1..Len(stageLog) :
        (/\ stageLog[j].stage = "aiSentimentAnalysis"
         /\ Len(stageLog[j].input) = 10
         /\ stageLog[j].response = Answered(CategorizationText(<<1, 2>>, <<>>, <<3>>)))
        => (/\ ~stageLog[j].failed
            /\ stageLog[j].output.painPoints = SubSeq(stageLog[j].input, 1, 2)
            /\ stageLog[j].output.contentIdeas = <<stageLog[j].input[3]>>
            /\ Len(stageLog[j].output.trendingIdeas) = 1
            /\ Elements(stageLog[j].output.trendingIdeas)
                   \subseteq Elements(SubSeq(stageLog[j].input, 1, 3)))

\* the batch got no usable answer: the call threw, or returned no text, or
\* what the service parses of the text does not parse
NoUsableAnswer(entry) ==
    \/ entry.response.threw
    \/ entry.response.text = <<>>
    \/ IF operation = "AIService.filterRelevantPosts"
       THEN ~JSONparse(entry.response.text).ok
       ELSE \/ AIUtilsExtractJSON(utilsCopy, entry.response.text).null
            \/ ~JSONparse(AIUtilsExtractJSON(utilsCopy, entry.response.text).text).ok

NumBatches(n) == (n + BatchSize - 1) \div BatchSize

RECURSIVE OutputsFrom(_, _)
OutputsFrom(log, k) ==
    IF k > Len(log) THEN <<>> ELSE log[k].output \o OutputsFrom(log, k + 1)

\* C7: the filter cuts the posts into ceil(N/50) consecutive batches and
\* returns the concatenation of the batch results; for 120 posts whose
\* second batch throws that is the oracle-selected posts of batch 1, all 50
\* posts of batch 2 and the oracle-selected posts of batch 3.
C7_BatchesConcatenated ==
    (ModularPipeline /\ FilterFinished) =>
        /\ Len(batchLog) = NumBatches(Len(posts))
        /\ \A k \in 1..Len(batchLog) :
              batchLog[k].input = BatchAt(posts, BatchSize * (k - 1))
        /\ relevantPosts = OutputsFrom(batchLog, 1)
        /\ (/\ Len(posts) = 120
            /\ AnsweredRelevant(batchLog[1])
            /\ batchLog[2].response.threw
            /\ AnsweredRelevant(batchLog[3]))
           => relevantPosts = OracleSelected(batchLog[1]) \o SubSeq(posts, 51, 100)
                                  \o OracleSelected(batchLog[3])

\* C8: every post a stage returns is one of the posts that stage was given:
\* the relevance filter, the focused analyser, the bulk categorizer before
\* and after rebalancing, and the keyword fallback.
C8_OutputsAreInputPosts ==
    /\ \A k \in 1..Len(batchLog) :
          Elements(batchLog[k].output) \subseteq Elements(batchLog[k].input)
    /\ Elements(relevantPosts) \subseteq Elements(posts)
    /\ \A j \in 1..Len(stageLog) :
          /\ Elements(stageLog[j].flat) \subseteq Elements(stageLog[j].input)
          /\ Elements(stageLog[j].before.painPoints) \subseteq Elements(stageLog[j].input)
          /\ Elements(stageLog[j].before.trendingIdeas) \subseteq Elements(stageLog[j].input)
          /\ Elements(stageLog[j].before.contentIdeas) \subseteq Elements(stageLog[j].input)
          /\ Elements(stageLog[j].output.painPoints) \subseteq Elements(stageLog[j].input)
          /\ Elements(stageLog[j].output.trendingIdeas) \subseteq Elements(stageLog[j].input)
          /\ Elements(stageLog[j].output.contentIdeas) \subseteq Elements(stageLog[j].input)
    /\ Elements(result.results) \cup Elements(result.painPoints)
           \cup Elements(result.trendingIdeas) \cup Elements(result.contentIdeas)
       \subseteq Elements(posts)

\* a bulk categorization that selected posts by index, dropped an index out
\* of range, and had a category filled by the rebalancer
C8_Witness ==
    /\ pc = "done"
    /\ operation = "categorizePosts"
    /\ Len(stageLog) = 1
    /\ ~stageLog[1].failed
    /\ stageLog[1].response.text =
           TwoObjects(RelevantText(<<1>>),
                      CategorizationText(<<Len(relevantPosts), 0>>,
                                         <<Len(relevantPosts) + 1, 1>>, <<2>>))
    /\ stageLog[1].before.painPoints # <<>>
    /\ \E k \in 1..Len(batchLog) :
          ~batchLog[k].failed /\ batchLog[k].output # <<>>
                              /\ batchLog[k].output # batchLog[k].input
    /\ result.contentIdeas # <<>>

\* C9: an index outside 1..(number of posts shown) in an oracle response is
\* dropped silently: the in-range indices of the same response still select
\* their posts and the stage does not take its failure path (relevance
\* filter, focused analyser, bulk categorizer).
C9_OutOfRangeIndexDropped ==
    /\ \A k \in 1..Len(batchLog) :
          (/\ ModularPipeline
           /\ AnsweredRelevant(batchLog[k])
           /\ HasOutOfRange(batchLog[k].input,
                            AskedIndices(batchLog[k].response.text, <<"relevant">>)))
          => (~batchLog[k].failed /\ batchLog[k].output = OracleSelected(batchLog[k]))
    /\ \A j \in 1..Len(stageLog) :
          /\ (/\ stageLog[j].stage = "performCategorySpecificAnalysis"
              /\ AnsweredRelevant(stageLog[j])
              /\ HasOutOfRange(stageLog[j].input,
                               AskedIndices(stageLog[j].response.text, <<"relevant">>)))
             => (~stageLog[j].failed /\ stageLog[j].flat = OracleSelected(stageLog[j]))
          /\ (/\ stageLog[j].stage = "aiSentimentAnalysis"
              /\ ~stageLog[j].response.threw
              /\ IsObjectText(stageLog[j].response.text)
              /\ HasOutOfRange(stageLog[j].input,
                               AskedIndices(stageLog[j].response.text, <<"painPoints">>)))
             => (/\ ~stageLog[j].failed
                 /\ stageLog[j].before.painPoints =
                        IndexChain(stageLog[j].input,
                                   AskedIndices(stageLog[j].response.text, <<"painPoints">>)))

\* C10: the focused analysis returns a flat list of at most 15 entries.
C10_FocusedAtMostFifteen ==
    /\ \A j \in 1..Len(stageLog) :
          stageLog[j].stage = "performCategorySpecificAnalysis"
              => Len(stageLog[j].flat) <= 15
    /\ result.kind = "focused" => Len(result.results) <= 15

\* C11: bulk categorization caps its input at 100 posts: only the first 100
\* posts given to aiSentimentAnalysis are offered to the oracle, and only
\* those can be placed in a category.
C11_OnlyFirstHundredCategorized ==
    \A j \in 1..Len(stageLog) :
        (stageLog[j].stage = "aiSentimentAnalysis" /\ ~stageLog[j].failed)
        => /\ Elements(stageLog[j].before.painPoints)
                  \cup Elements(stageLog[j].before.trendingIdeas)
                  \cup Elements(stageLog[j].before.contentIdeas)
              \subseteq Elements(SentimentPromptPosts(stageLog[j].input))
           /\ Elements(stageLog[j].output.painPoints)
                  \cup Elements(stageLog[j].output.trendingIdeas)
                  \cup Elements(stageLog[j].output.contentIdeas)
              \subseteq Elements(SentimentPromptPosts(stageLog[j].input))

\* C12: when the answer to the category prompt parses and its relevant list
\* maps to fewer than 1 post of the input (empty, or out of range only),
\* performCategorySpecificAnalysis returns the noRelevantContent object with
\* availablePosts 0 and totalPosts the input count, and performFocusedAnalysis
\* returns no results with noRelevantContent set.
C12_NoRelevantContentSignal ==
    \A j \in 1..Len(stageLog) :
        (/\ stageLog[j].stage = "performCategorySpecificAnalysis"
         /\ AnsweredRelevant(stageLog[j])
         /\ OracleSelected(stageLog[j]) = <<>>)
        => (/\ ~stageLog[j].failed
            /\ stageLog[j].why = "noRelevantContent"
            /\ stageLog[j].flat = <<>>
            /\ stageLog[j].returned.availablePosts = 0
            /\ stageLog[j].returned.totalPosts = Len(stageLog[j].input)
            /\ result.kind = "focused"
            /\ result.results = <<>>
            /\ result.noRelevantContent)

C12_Witness ==
    /\ pc = "done"
    /\ Len(stageLog) = 1
    /\ stageLog[1].stage = "performCategorySpecificAnalysis"
    /\ Len(stageLog[1].input) = 20
    /\ stageLog[1].response = Answered(RelevantText(<<0, 21>>))
    /\ result.noRelevantContent
    /\ result.relevantCount = 20

\* C13: rebalancing is idempotent: ensureAllCategoriesHaveResults applied to
\* its own result, with the same post list, returns the same three
\* categories.
C13_RebalanceIdempotent ==
    pc = "rebalanced_twice" => stageLog[2].output = stageLog[1].output

C13_Witness ==
    /\ pc = "rebalanced_twice"
    /\ Len(posts) = 30
    /\ stageLog[1].before.painPoints = <<>>
    /\ Len(stageLog[1].output.painPoints) = 3
    /\ stageLog[1].before.contentIdeas = <<>>
    /\ stageLog[2].output.contentIdeas # <<>>

\* the response without its fences, from its first bracket on
TextFromFirstBracket(responseText) ==
    LET FromFirst(stripped, firstArr, firstObj) ==
            IF firstArr = 0 /\ firstObj = 0 THEN stripped
            ELSE IF firstArr = 0 THEN From(stripped, firstObj)
            ELSE IF firstObj = 0 THEN From(stripped, firstArr)
            ELSE From(stripped, IF firstArr < firstObj THEN firstArr ELSE firstObj)
        Stripped(stripped) ==
            FromFirst(stripped, IndexOf(stripped, "["), IndexOf(stripped, "{"))
    IN  Stripped(StripFences(responseText))

\* C14: for a response whose JSON has one unbalanced trailing bracket, or
\* whose brackets are off by one, extractJSON returns the largest prefix of
\* the cleaned text that parses as JSON (whenever some prefix parses).
C14_LargestParsingPrefix ==
    (pc = "extract_done" /\ TrialParseEnd(TextFromFirstBracket(text)) > 0)
    => (/\ ~extracted.null
        /\ extracted.text = SubSeq(TextFromFirstBracket(text), 1,
                                   TrialParseEnd(TextFromFirstBracket(text))))

\* the entry point has returned a value to its caller
EntryPointReturned ==
    \/ pc = "done" /\ result.kind \in {"categories", "focused", "filtered"}
    \/ pc = "expansion_done" /\ focusAreas # <<>>

\* C15: when every oracle call eventually returns or fails, each of
\* generateQueryExpansion, categorizePosts and performFocusedAnalysis
\* eventually returns a result value, whatever the oracle does.
C15_EveryCallReturns == <>EntryPointReturned

\* categorizePosts returned after its filter batch and its sentiment call
\* both failed
C15_Witness ==
    /\ pc = "done"
    /\ operation = "categorizePosts"
    /\ Len(batchLog) = 1
    /\ batchLog[1].failed
    /\ Len(stageLog) = 2
    /\ stageLog[1].failed
    /\ result.kind = "categories"
    /\ result.painPoints # <<>>

-----------------------------------------------------------------------------
(* Failure handling of the stages *)

\* C16: filterRelevantPosts never raises to its caller: whatever failure
\* branch a batch takes (thrown call, no text, unparseable text, a value
\* without a relevant list), the batch hands back its own posts, the loop
\* goes on with the next batch, and the filter ends with a list of posts of
\* its input, which is the whole input when every batch failed.
C16_FilterFailsOpen ==
    /\ \A k \in 1..Len(batchLog) :
          batchLog[k].failed => batchLog[k].output = batchLog[k].input
    /\ pc = "filter_batch" => Len(batchLog) < NumBatches(Len(posts))
    /\ (FilterFinished /\ posts # <<>>) =>
          /\ Len(batchLog) = NumBatches(Len(posts))
          /\ Elements(relevantPosts) \subseteq Elements(posts)
          /\ (\A k \in 1..Len(batchLog) : batchLog[k].failed) => relevantPosts = posts
    /\ (pc = "done" /\ operation = "AIService.filterRelevantPosts") =>
          /\ result.kind = "filtered"
          /\ result.results = relevantPosts

\* a filter run over three batches: the first answer does not parse, the
\* second selects posts, the third has no object to read the list from; the
\* caller went on with its next stage
C16_Witness ==
    /\ ModularPipeline
    /\ pc \in {"sentiment", "focused"}
    /\ Len(batchLog) = 3
    /\ batchLog[1].why = "parse_error"
    /\ batchLog[2].why = "filtered"
    /\ Len(batchLog[2].output) < Len(batchLog[2].input)
    /\ batchLog[3].why = "type_error"
    /\ Len(relevantPosts) < Len(posts)

\* the oracle call of a modular stage failed, or what extractJSON makes of
\* its response is not JSON
CallFailedOrUnparsed(entry) ==
    \/ entry.response.threw
    \/ entry.response.text = <<>>
    \/ AIUtilsExtractJSON(utilsCopy, entry.response.text).null
    \/ ~JSONparse(AIUtilsExtractJSON(utilsCopy, entry.response.text).text).ok

-----------------------------------------------------------------------------
(* The retry loop of generateQueryExpansion *)

\* C19: generateQueryExpansion makes at most 3 oracle calls; every call but
\* the last one made so far ended in a failure branch, so attempt k+1 comes
\* only after attempt k failed and no call follows a successful attempt; a
\* successful attempt is returned as it is; the fallback is returned only
\* after 3 failed attempts.
C19_RetryDiscipline ==
    /\ calls <= 3
    /\ calls = Len(attemptLog)
    /\ \A i \in 1..(Len(attemptLog) - 1) : attemptLog[i] # "success"
    /\ pc = "expansion_attempt" =>
          /\ attempt = calls + 1
          /\ \A i \in 1..Len(attemptLog) : attemptLog[i] # "success"
    /\ (attemptLog # <<>> /\ attemptLog[Len(attemptLog)] = "success") =>
          /\ ExpansionReturned
          /\ \A i \in 1..Len(focusAreas) : ~focusAreas[i].isFallback
    /\ (ExpansionReturned /\ \E i \in 1..Len(focusAreas) : focusAreas[i].isFallback) =>
          /\ calls = 3
          /\ \A i \in 1..3 : attemptLog[i] # "success"

\* the second attempt succeeded after nothing could be extracted from the
\* first answer: two calls were made and no third
C19_Witness ==
    /\ ExpansionReturned
    /\ attemptLog = <<"no_json", "success">>
    /\ calls = 2
    /\ attempt = 2
    /\ focusAreas # <<>>
    /\ ~focusAreas[1].isFallback

-----------------------------------------------------------------------------
(* The failure conditions of the inference client *)

\* which of the failure conditions a request meets
FailureCondition(wire) ==
    CASE wire.kind = "refused" -> "connection_refused"
      [] wire.kind = "timeout" -> "timeout"
      [] wire.status < 200 \/ wire.status > 299 -> "non_2xx"
      [] ~wire.data.present \/ wire.data.response = <<>> -> "no_text"
      [] OTHER -> "none"

\* C20: a refused connection, a timeout, a status outside 2xx and a 2xx
\* response without response text each make OllamaClient.call throw, and
\* the error thrown for one condition is never the error thrown for another
\* condition.
C20_FailuresRaiseDistinctErrors ==
    (pc = "client_done" /\ FailureCondition(transport) # "none") =>
        /\ outcome.raised
        /\ \A other \in Transports :
              FailureCondition(other) \notin {"none", FailureCondition(transport)}
                  => OllamaCall(request, other).error # outcome.error

\* C21: a call of OllamaClient.call posts exactly one request to the
\* inference endpoint, for the model the options select, and posts no other
\* one, whether the call returns the response text or throws.
C21_OneRequestPerCall ==
    /\ pc = "client_call" => calls = 0
    /\ pc = "client_done" =>
          /\ calls = 1
          /\ request.sent = ModelOf(request)
          /\ outcome = OllamaCall(request, transport)
          /\ ~ENABLED OllamaClientCall

\* a call whose request timed out: it threw after its one request
C21_Witness ==
    /\ pc = "client_done"
    /\ transport = TimedOut("ECONNABORTED")
    /\ outcome.raised
    /\ calls = 1

-----------------------------------------------------------------------------
(* The relevance numbers of categorizePosts *)

\* C22: in every result of categorizePosts the number of relevant posts is
\* at most the number of input posts, so that relevanceScore
\* (relevant / total) lies between 0 and 1 and excludedIrrelevantPosts
\* (total - relevant) is not negative, also when an answer repeats an index.
C22_RelevanceScoreInUnitRange ==
    (pc = "done" /\ operation = "categorizePosts") =>
        /\ 0 <= result.relevantCount
        /\ result.relevantCount <= result.totalPosts

-----------------------------------------------------------------------------
(* The feedback read model and the relevance filter *)

\* C23: what getRatingInsights returns does not change the result of the
\* relevance filter: for the same batch, offset and oracle response,
\* filterBatchRelevance returns the same posts whether the rating tables
\* are not configured, fail, hold no row or hold insights.
C23_FeedbackDoesNotChangeResult ==
    pc = "batch_done" =>
        \A other \in Feedbacks :
            /\ FilterBatchWithFeedback(utilsCopy, posts, batchLog[1].offset, other,
                                       batchLog[1].response).run.output = relevantPosts
            /\ FilterBatchWithFeedback(utilsCopy, posts, batchLog[1].offset, other,
                                       batchLog[1].response).run.failed = batchLog[1].failed

\* a batch filtered with insights in its prompt: the oracle's selection is
\* applied, and the same call without insights has another prompt
C23_Witness ==
    /\ pc = "batch_done"
    /\ feedback = "rows"
    /\ batchLog[1].prompt.ratingContext # <<>>
    /\ FilterBatchWithFeedback(utilsCopy, posts, batchLog[1].offset, "throws",
                               batchLog[1].response).prompt # batchLog[1].prompt
    /\ batchLog[1].why = "filtered"
    /\ relevantPosts # <<>>
    /\ Len(relevantPosts) < Len(posts)

-----------------------------------------------------------------------------
(* The caller's post list *)

\* C24: no operation changes the post list its caller passed in: after the
\* keyword classifier and after fallbackCategoryAnalysis the caller's list
\* holds the same posts in the same order as before the call.
C24_CallerListUnchanged ==
    pc = "classifier_done" => posts = stageLog[1].input

-----------------------------------------------------------------------------
(* Index selection in the relevance filter *)

\* C25: when the response of a batch is the object {"relevant":[i1,...,ik]}
\* and nothing else, with every index in 1..(size of the batch),
\* filterBatchRelevance returns the posts of the batch at those positions,
\* in the order given, and no others.
C25_WellFormedAnswerSelectsPosts ==
    \A k \in 1..Len(batchLog) :
        (/\ ModularPipeline
         /\ AnsweredRelevant(batchLog[k])
         /\ ~HasOutOfRange(batchLog[k].input,
                           AskedIndices(batchLog[k].response.text, <<"relevant">>)))
        => (/\ ~batchLog[k].failed
            /\ batchLog[k].output = OracleSelected(batchLog[k]))

\* C26: in every batch, also at offset 50, 100, ..., the number the prompt
\* shows next to a post is the index that selects it: when the indices the
\* service reads from the answer are the numbers displayed for the first
\* and the last post of the batch, the batch returns these two posts.
C26_DisplayedNumberSelectsPost ==
    \A k \in 1..Len(batchLog) :
        (/\ ModularPipeline
         /\ utilsCopy = 2
         /\ batchLog[k].response
                = Answered(DisplayedAnswer(Len(batchLog[k].input), batchLog[k].offset)))
        => (/\ PromptNumbers(batchLog[k].input, batchLog[k].offset)[1]
                   = DisplayedIndices(Len(batchLog[k].input), batchLog[k].offset)[1]
            /\ ~batchLog[k].failed
            /\ batchLog[k].output
                   = IF Len(batchLog[k].input) = 1 THEN <<batchLog[k].input[1]>>
                     ELSE <<batchLog[k].input[1],
                            batchLog[k].input[Len(batchLog[k].input)]>>)

\* C27: the batches of the Relevance Filter run one after another: batch k
\* is the slice at offset 50 * (k - 1) and its oracle call is the only one
\* made since batch k - 1 returned; the loop has paused once after every
\* batch that is followed by another one, so a run of b batches makes
\* b - 1 pauses, and none after the last batch.
C27_BatchesSequentialWithPauses ==
    (operation \in Operations) =>
        /\ \A k \in 1..Len(batchLog) :
              /\ batchLog[k].offset = BatchSize * (k - 1)
              /\ batchLog[k].input = BatchAt(posts, BatchSize * (k - 1))
        /\ pc \in {"filter_batch", "filter_pause"} => calls = Len(batchLog)
        /\ pc = "filter_batch" =>
              /\ pauses = Len(batchLog)
              /\ Len(batchLog) < NumBatches(Len(posts))
        /\ pc = "filter_pause" =>
              /\ Len(batchLog) >= 1
              /\ pauses = Len(batchLog) - 1
              /\ Len(batchLog) < NumBatches(Len(posts))
        /\ (FilterFinished /\ posts # <<>>) =>
              /\ Len(batchLog) = NumBatches(Len(posts))
              /\ pauses = NumBatches(Len(posts)) - 1
        /\ posts = <<>> => pauses = 0 /\ batchLog = <<>>

\* a run of three batches has finished after two pauses
C27_Witness ==
    /\ operation \in Operations
    /\ FilterFinished
    /\ Len(posts) = 120
    /\ Len(batchLog) = 3
    /\ pauses = 2

\* C28: in categorizePosts and performFocusedAnalysis the categorization
\* oracle call is made only after the Relevance Filter has returned, and on
\* the list the filter returned; on an empty input no oracle call is made
\* at all; when the filter returns no posts, no categorization call is
\* made and the entry point returns an empty result.
C28_CategorizationAfterFilter ==
    ModularPipeline =>
        /\ posts = <<>> => (calls = 0 /\ batchLog = <<>> /\ stageLog = <<>>)
        /\ ~FilterFinished => (stageLog = <<>> /\ calls = Len(batchLog))
        /\ stageLog # <<>> =>
              /\ Len(batchLog) = NumBatches(Len(posts))
              /\ relevantPosts = OutputsFrom(batchLog, 1)
              /\ relevantPosts # <<>>
              /\ stageLog[1].stage
                     \in {"aiSentimentAnalysis", "performCategorySpecificAnalysis"}
              /\ stageLog[1].input = relevantPosts
              /\ calls = Len(batchLog) + 1
        /\ (FilterFinished /\ posts # <<>> /\ relevantPosts = <<>>) =>
              /\ pc = "done"
              /\ stageLog = <<>>
              /\ calls = Len(batchLog)
              /\ result.results = <<>>
              /\ result.painPoints = <<>>
              /\ result.trendingIdeas = <<>>
              /\ result.contentIdeas = <<>>
              /\ result.relevantCount = 0
              /\ result.totalPosts = Len(posts)

\* the filter has returned no post of a non-empty input and the entry
\* point has returned without a categorization call
C28_Witness ==
    /\ operation = "performFocusedAnalysis"
    /\ pc = "done"
    /\ Len(posts) = 3
    /\ ~batchLog[1].failed
    /\ relevantPosts = <<>>
    /\ calls = 1
    /\ result.totalPosts = 3

\* the entry the padding loop has appended n passes after entry: each
\* pass clones the entry that was last at that time
AlternateOf(entry, n) ==
    [entry EXCEPT
        !.title = entry.title \o [pass \in 1..n |-> " (Alternate)"],
        !.expandedQuery = entry.expandedQuery \o [pass \in 1..n |-> " alternative"]]

\* the entries of the answer that pass the validation, cleaned, in order
ValidatedEntries(answer) ==
    [i \in 1..Len(SelectSeq(JSONparse(answer).v.e, ValidSubtopic)) |->
        CleanSubtopic(SelectSeq(JSONparse(answer).v.e, ValidSubtopic)[i])]

\* C29: a successful attempt on an answer with v valid entries returns, in
\* front of the custom option, six entries: for v >= 6 the first six valid
\* entries in order; for 1 <= v < 6 the v valid entries unchanged, then
\* 6 - v clones, each a copy of the entry that was last when it was added,
\* with " (Alternate)" appended to its title and " alternative" appended
\* to its expandedQuery.
C29_PaddedToSix ==
    (pc = "attempt_done" /\ attemptLog = <<"success">>) =>
        /\ Len(ValidatedEntries(text)) >= 1
        /\ Len(focusAreas) = 7
        /\ \A i \in 1..6 :
              focusAreas[i] =
                 IF i <= Len(ValidatedEntries(text))
                 THEN ValidatedEntries(text)[i]
                 ELSE AlternateOf(ValidatedEntries(text)[Len(ValidatedEntries(text))],
                                  i - Len(ValidatedEntries(text)))

\* an answer of five entries, two of them valid, has been padded with four
\* clones, the last of which carries the suffix four times
C29_Witness ==
    /\ pc = "attempt_done"
    /\ attemptLog = <<"success">>
    /\ Len(JSONparse(text).v.e) = 5
    /\ Len(ValidatedEntries(text)) = 2
    /\ focusAreas[2].title = <<"T", "2">>
    /\ focusAreas[3].title = <<"T", "2", " (Alternate)">>
    /\ focusAreas[6].title
          = <<"T", "2", " (Alternate)", " (Alternate)", " (Alternate)", " (Alternate)">>
    /\ focusAreas[6].expandedQuery
          = <<"E", "2", " alternative", " alternative", " alternative", " alternative">>
    /\ focusAreas[6].description = focusAreas[2].description

\* k = max(1, floor(originalCount / 10))
MinPostsPerCategory(originalCount) ==
    IF originalCount \div 10 > 1 THEN originalCount \div 10 ELSE 1

\* the first min(k, available) entries of a list
FirstAvailable(list, k) == [i \in 1..(IF Len(list) < k THEN Len(list) ELSE k) |-> list[i]]

\* what one category holds after the call, given what it held before and
\* the current contents of the other two, in their fixed order
Refilled(held, others, original) ==
    IF held = <<>> /\ original # <<>>
    THEN FirstAvailable(others, MinPostsPerCategory(Len(original)))
    ELSE held

\* C30: ensureAllCategoriesHaveResults refills each category that is empty
\* while the original list is not, in the order painPoints, trendingIdeas,
\* contentIdeas, with the first min(k, available) entries of the other two
\* categories' current contents, k = max(1, floor(originalCount / 10)); a
\* category that is not empty is left as it is, and every entry of the
\* result was in one of the three categories before: none is taken from
\* the original list.
C30_EmptyCategoryRefilledFromOthers ==
    \A n \in 1..Len(stageLog) :
        stageLog[n].stage = "ensureAllCategoriesHaveResults" =>
            /\ stageLog[n].output.painPoints
                  = Refilled(stageLog[n].before.painPoints,
                             stageLog[n].before.trendingIdeas
                                 \o stageLog[n].before.contentIdeas,
                             stageLog[n].input)
            /\ stageLog[n].output.trendingIdeas
                  = Refilled(stageLog[n].before.trendingIdeas,
                             stageLog[n].output.painPoints
                                 \o stageLog[n].before.contentIdeas,
                             stageLog[n].input)
            /\ stageLog[n].output.contentIdeas
                  = Refilled(stageLog[n].before.contentIdeas,
                             stageLog[n].output.painPoints
                                 \o stageLog[n].output.trendingIdeas,
                             stageLog[n].input)
            /\ Elements(stageLog[n].output.painPoints \o stageLog[n].output.trendingIdeas
                            \o stageLog[n].output.contentIdeas)
                  \subseteq Elements(stageLog[n].before.painPoints
                                        \o stageLog[n].before.trendingIdeas
                                        \o stageLog[n].before.contentIdeas)

\* of 30 posts only trendingIdeas held any, four of them: painPoints got
\* the first three of these, and contentIdeas the three painPoints then
\* held, so these posts are in all three categories
C30_Witness ==
    /\ pc = "rebalanced_once"
    /\ Len(posts) = 30
    /\ stageLog[1].before = Categories(<<>>, Slice(posts, 4), <<>>)
    /\ result.painPoints = Slice(posts, 3)
    /\ result.trendingIdeas = Slice(posts, 4)
    /\ result.contentIdeas = Slice(posts, 3)

\* the bucket of the largest of three numbers, the first one on a tie
FirstLargest(pain, trending, content) ==
    IF pain >= trending /\ pain >= content THEN "painPoints"
    ELSE IF trending >= content THEN "trendingIdeas"
    ELSE "contentIdeas"

\* how often a post occurs in a list
Occurrences(list, p) == Cardinality({i \in 1..Len(list) : list[i] = p})

\* C31: before rebalancing the keyword classifier has put every input post
\* in exactly one bucket, and the bucket is the one the three keyword
\* counts choose, the trending count raised by 1 when the engagement of
\* the post exceeds twice the mean, ties going to pain, then trending,
\* then content: the engagement bonus plays no part.
C31_BucketByKeywordCounts ==
    (pc = "classifier_done" /\ operation = "enhancedSentimentAnalysis") =>
        \A i \in 1..Len(posts) :
            /\ Occurrences(stageLog[1].before.painPoints, posts[i])
                 + Occurrences(stageLog[1].before.trendingIdeas, posts[i])
                 + Occurrences(stageLog[1].before.contentIdeas, posts[i]) = 1
            /\ Occurrences(
                   stageLog[1].before[
                       FirstLargest(
                           PainScore(corpus, posts[i]),
                           TrendingScore(corpus, posts[i])
                               + (IF Engagement(corpus, posts[i]) * Len(posts)
                                        > 2 * TotalEngagement(corpus, posts)
                                  THEN 1 ELSE 0),
                           ContentScore(corpus, posts[i]))],
                   posts[i]) = 1

\* a list is ordered by non-increasing engagement
NonIncreasingEngagement(c, list) ==
    \A i \in 1..Len(list) - 1 : Engagement(c, list[i]) >= Engagement(c, list[i + 1])

\* C32: in the result of the keyword classifier every bucket is ordered by
\* non-increasing engagement and holds at most 50 posts.
C32_BucketsSortedAndCapped ==
    \A n \in 1..Len(stageLog) :
        stageLog[n].stage = "enhancedSentimentAnalysis" =>
            \A name \in {"painPoints", "trendingIdeas", "contentIdeas"} :
                /\ NonIncreasingEngagement(corpus, stageLog[n].output[name])
                /\ Len(stageLog[n].output[name]) <= 50

\* C33: the request body carries the temperature and the token budget the
\* caller gave, unchanged, temperature 0 included; an omitted temperature
\* is sent as 0.3, an omitted budget as 800 when the resolved model is the
\* analysis model and as 1000 otherwise; the context size is 2048 for the
\* analysis model and 4096 otherwise, whatever the caller gave.
C33_OptionsSentUnchanged ==
    pc = "client_done" =>
        /\ request.body.temperature
              = (IF request.temperature.given THEN request.temperature.value ELSE 3)
        /\ request.body.max_tokens
              = (IF request.max_tokens.given THEN request.max_tokens.value
                 ELSE IF request.sent = analysisModel THEN 800 ELSE 1000)
        /\ request.body.num_ctx = (IF request.sent = analysisModel THEN 2048 ELSE 4096)

\* C34: when the oracle call of generateSemanticContext fails inside a
\* batch, the batch does not take its catch for that reason: the prompt
\* gets the static template, the relevance call is made, and on an answer
\* {"relevant":[...]} with indices in range the batch returns the posts
\* the oracle selected.
C34_GlossFailureKeepsSelection ==
    (pc = "batch_done" /\ batchLog[1].gloss.threw) =>
        /\ batchLog[1].semanticContext = getFallbackSemanticContext(query)
        /\ calls = 1
        /\ batchLog[1].why # "gloss_error"
        /\ (/\ AnsweredRelevant(batchLog[1])
            /\ ~HasOutOfRange(posts, AskedIndices(batchLog[1].response.text, <<"relevant">>)))
           => (/\ ~batchLog[1].failed
               /\ relevantPosts = OracleSelected(batchLog[1]))

\* the part of C34 that does not rest on the index selection: after a
\* failed gloss call the template is in the prompt, the relevance call is
\* made, and the batch returns what it returns after a gloss call that
\* succeeded
GlossFailureChangesNothing ==
    (pc = "batch_done" /\ batchLog[1].gloss.threw) =>
        /\ batchLog[1].semanticContext = getFallbackSemanticContext(query)
        /\ calls = 1
        /\ batchLog[1].why # "gloss_error"
        /\ relevantPosts
              = FilterBatchWithFeedback(utilsCopy, posts, batchLog[1].offset, feedback,
                                        batchLog[1].response).run.output

\* neither the bracket matching nor the trial-parse search finds a JSON text
\* in a cleaned response
NothingFound(cleaned) ==
    /\ (cleaned = <<>> \/ cleaned[1] \notin {"[", "{"} \/ MatchEnd(cleaned, 1) = 0)
    /\ TrialParseEnd(cleaned) = 0

\* C35: extractJSON returns null exactly for the null, empty and
\* white-space-only inputs; for every other input it returns a text, and
\* when neither bracket matching nor the trial-parse search succeeds that
\* text is the cleaned response (fences removed, text before the first
\* bracket removed) unchanged.
C35_NullOnlyForBlankInput ==
    pc = "extract_done"
    => /\ extracted.null <=> (Trim(text) = <<>>)
       /\ (Trim(text) # <<>> /\ NothingFound(TextFromFirstBracket(text)))
          => extracted.text = TextFromFirstBracket(text)

\* the JSON arrays among the oracle's answers
AnswerArrays == {t \in ExpansionTexts : JSONparse(t).ok /\ IsArray(JSONparse(t).v)}

\* the validated entries of a list and the clones the padding can make of them
WithAlternates(entries) ==
    {AlternateOf(entries[j], n) : j \in 1..Len(entries), n \in 0..5}

\* per answer, the entries that can come from it
AnswerEntries == {WithAlternates(ValidatedEntries(answer)) : answer \in AnswerArrays}

\* C36: no entry returned by generateQueryExpansion is flagged isFallback
\* unless all 3 attempts failed; when some attempt yields a valid entry, the
\* 7 entries returned are entries of that attempt's answer, their padding
\* clones and the custom option, none of them flagged.
C36_FallbackFlagOnlyAfterThreeFailures ==
    ExpansionReturned =>
        /\ (\E i \in 1..Len(focusAreas) : focusAreas[i].isFallback) => AllAttemptsFailed
        /\ (\E k \in 1..Len(attemptLog) : attemptLog[k] = "success") =>
              /\ Len(focusAreas) = 7
              /\ \A i \in 1..7 : ~focusAreas[i].isFallback
              /\ focusAreas[7] = CustomOption(query)
              /\ \E fromAnswer \in AnswerEntries :
                    \A i \in 1..6 : focusAreas[i] \in fromAnswer

\* the third attempt succeeded on an answer whose only entry the oracle had
\* flagged itself: six unflagged entries and the custom option came back
C36_Witness ==
    /\ ExpansionReturned
    /\ attemptLog = <<"call_error", "no_valid", "success">>
    /\ Len(focusAreas) = 7
    /\ focusAreas[1].title = <<"T">>
    /\ focusAreas[6].title = <<"T", " (Alternate)", " (Alternate)", " (Alternate)",
                               " (Alternate)", " (Alternate)">>
    /\ ~focusAreas[1].isFallback
    /\ focusAreas[7].isCustom

\* the posts of the three categories of a result
Categorized(returned) ==
    Elements(returned.painPoints) \cup Elements(returned.trendingIdeas)
        \cup Elements(returned.contentIdeas)

C38_NonEmptyCategoriesUntouched ==
    [][(operation = "ensureAllCategoriesHaveResults" /\ pc \in {"rebalance", "rebalanced_once"})
       => /\ result.painPoints # <<>> => result'.painPoints = result.painPoints
          /\ result.trendingIdeas # <<>> => result'.trendingIdeas = result.trendingIdeas
          /\ result.contentIdeas # <<>> => result'.contentIdeas = result.contentIdeas
          /\ result'.relevantCount = result.relevantCount
          /\ result'.totalPosts = result.totalPosts
          /\ posts = <<>> => result' = result]_vars

\* of 20 posts, four were pain points and none was trending or content: the
\* call kept the four in their order and gave the two empty categories the
\* first two of them
C38_Witness ==
    /\ operation = "ensureAllCategoriesHaveResults"
    /\ pc = "rebalanced_once"
    /\ Len(posts) = 20
    /\ stageLog[1].before = Categories(<<1001, 1002, 1003, 1004>>, <<>>, <<>>)
    /\ result.painPoints = <<1001, 1002, 1003, 1004>>
    /\ result.trendingIdeas = <<1001, 1002>>
    /\ result.contentIdeas = <<1001, 1002>>
    /\ result.relevantCount = 20

\* C39: with a verifier configured, a request whose signature does not
\* verify is answered 401; no user record is read or updated, no
\* subscription or payment is retrieved, and every user's tier is as before.
C39_UnverifiedRequestChangesNothing ==
    [][(pc = "webhook_received" /\ webhookVerifier /\ ~webhook.request.valid)
       => /\ webhook'.status = 401
          /\ webhook'.calls = <<>>
          /\ users' = users]_vars

\* a request was rejected after an earlier one had made user u1 pro
C39_Witness ==
    /\ pc = "webhook_responded"
    /\ webhookVerifier
    /\ webhook.status = 401
    /\ webhook.calls = <<>>
    /\ users["u1"] = "pro"

\* the event types that upgrade and those that downgrade
UpgradingTypes ==
    {"subscription.active", "subscription.activated", "subscription.renewed",
     "payment.succeeded", "subscription.trial_started"}
DowngradingTypes ==
    {"subscription.cancelled", "subscription.expired", "subscription.paused",
     "subscription.on_hold", "subscription.suspended", "subscription.failed",
     "subscription.trial_ended"}

\* the tier an event of a type and plan dictates for a user who had tier held
TierDictated(type, plan_id, held) ==
    IF type \in UpgradingTypes THEN (IF plan_id = "pro" THEN "pro" ELSE "standard")
    ELSE IF type \in DowngradingTypes THEN "free"
    ELSE held

\* the request in flight passed the verification (or there is none), its
\* payload carries metadata.user_id, and the users table takes the update
EventWithUserId ==
    /\ pc = "webhook_received"
    /\ (webhookVerifier => webhook.request.valid)
    /\ webhook.request.metadata.user_id # ""
    /\ ~webhook.request.updateFails

\* the payload_type the provider gives events of a type
PayloadTypeOf(type) ==
    IF type \in {"payment.succeeded", "payment.failed", "payment.cancelled",
                 "payment.processing"}
    THEN "Payment" ELSE "Subscription"

=============================================================================
